---- MODULE Spec2Model ----
(***************************************************************************)
(* Udyam Registration Portal: the validation service, the /validate/* and  *)
(* /submit routes of the backend and the persistence sink behind /submit.  *)
(*                                                                         *)
(* Strings are sequences of one-character strings, JSON values are tagged  *)
(* records [t, v], regular expressions are matched by the operator Test    *)
(* below, zod object schemas are sequences of field descriptions parsed by *)
(* ParseObject.                                                            *)
(***************************************************************************)
EXTENDS Naturals, Integers, Sequences, FiniteSets, TLC

VARIABLES svc, prisma, dbClientAvailable, db, req, out,
          san, cache, scraper, fetcher, form,
          rival, submits, enhanced

\* svc: a direct call of the validation service; prisma, dbClientAvailable,
\* db: the database client and the sink; req, out: the request the server
\* handles and its response; san: a call of sanitizeInput; cache: the files
\* of schema/generated; scraper: a run of a scraper; fetcher: the page's
\* fetchSchema call; form: the state of the registration form; rival: a
\* second run of a scraper, at the same time as the first; submits: the
\* /submit requests the server handles at the same time; enhanced: a run of
\* the enhanced scraper
serverVars == <<svc, prisma, dbClientAvailable, db, req, out>>
moreVars   == <<rival, submits, enhanced>>
otherVars  == <<san, cache, scraper, fetcher, form, moreVars>>
vars == <<serverVars, otherVars>>

---------------------------------------------------------------------------
(* Bounds *)

\* longest input string given to a single-field validator
MaxStrLen == 13
\* largest number of fields of a submission body that deviate from the valid record
MaxBadFields == 2
\* largest number of records the sink holds
MaxStored == 1
\* largest number of pieces a string given to sanitizeInput is put together from
MaxPieces == 3
\* largest number of /submit requests the server handles at the same time
MaxRequests == 2
\* largest number of postal lookups under way at the same time
MaxLookups == 2

\* largest number of input and select elements on the scraped page
MaxInputs == 2

\* the longest name validation.service accepts: .max(100, "Name too long")
NameMax == 100
\* scrape-step2.ts: result.slice(0, 6)
FieldCap == 6
\* scrape.ts: inputs.slice(0, 20)
InputCap == 20
\* scrape.ts: navigateWithRetry(page, url, attempts = 2); scrape-step2.ts
\* navigate: page.goto in the try block and once more in the catch block
NavAttempts == 2
\* the navigation timeout of the scrapers, in milliseconds
NavTimeout == 180000

---------------------------------------------------------------------------
(* Characters and character classes *)

Digits == {"0", "1", "2", "3", "4", "5", "6", "7", "8", "9"}
Digits2to9 == Digits \ {"0", "1"}
Digits6to9 == {"6", "7", "8", "9"}
Upper == {"A", "B", "C", "D", "E", "F", "G", "H", "I", "J", "K", "L", "M",
          "N", "O", "P", "Q", "R", "S", "T", "U", "V", "W", "X", "Y", "Z"}
Lower == {"a", "b", "c", "d", "e", "f", "g", "h", "i", "j", "k", "l", "m",
          "n", "o", "p", "q", "r", "s", "t", "u", "v", "w", "x", "y", "z"}

\* the characters input strings are built from
Alphabet == {"0", "1", "9", "A", "a", " ", "\n", "-"}

---------------------------------------------------------------------------
(* Regular expressions: ^? cls{n} cls{n} ... $? , matched as RegExp.test   *)
(* does: some start position, every atom consumed in turn, anchors obeyed. *)

Atom(cls, n) == [cls |-> cls, n |-> n]

RECURSIVE Flat(_)
Flat(atoms) ==
  IF atoms = <<>> THEN <<>>
  ELSE [i \in 1..atoms[1].n |-> atoms[1].cls] \o Flat(Tail(atoms))

MatchAt(re, s, start) ==
  LET f == Flat(re.atoms)
      stop == start + Len(f)
  IN  /\ stop <= Len(s) + 1
      /\ \A i \in 1..Len(f) : s[start + i - 1] \in f[i]
      /\ re.anchE => stop = Len(s) + 1

Test(re, s) ==
  \E start \in 1..(Len(s) + 1) :
     /\ re.anchS => start = 1
     /\ MatchAt(re, s, start)

\* mutant: the i flag set
panRegexIgnoreCase ==
  [anchS |-> TRUE,
   atoms |-> <<Atom(Upper \cup Lower, 5), Atom(Digits, 4), Atom(Upper \cup Lower, 1)>>,
   anchE |-> TRUE]
\* mutant: ^ and $ left out
panRegexNoAnchors ==
  [anchS |-> FALSE, atoms |-> <<Atom(Upper, 5), Atom(Digits, 4), Atom(Upper, 1)>>, anchE |-> FALSE]
panRegex ==
  [anchS |-> TRUE, atoms |-> <<Atom(Upper, 5), Atom(Digits, 4), Atom(Upper, 1)>>, anchE |-> TRUE]
\* mutant: [0-9] for the first digit
aadhaarRegexAnyFirstDigit ==
  [anchS |-> TRUE, atoms |-> <<Atom(Digits, 12)>>, anchE |-> TRUE]
aadhaarRegex ==
  [anchS |-> TRUE, atoms |-> <<Atom(Digits2to9, 1), Atom(Digits, 11)>>, anchE |-> TRUE]
mobileRegex ==
  [anchS |-> TRUE, atoms |-> <<Atom(Digits6to9, 1), Atom(Digits, 9)>>, anchE |-> TRUE]
\* mutant: $ left out
otpRegexNoEnd ==
  [anchS |-> TRUE, atoms |-> <<Atom(Digits, 6)>>, anchE |-> FALSE]
otpRegex ==
  [anchS |-> TRUE, atoms |-> <<Atom(Digits, 6)>>, anchE |-> TRUE]
pincodeRegex ==
  [anchS |-> TRUE, atoms |-> <<Atom(Digits, 6)>>, anchE |-> TRUE]

---------------------------------------------------------------------------
(* JSON values *)

Undefined == [t |-> "undefined", v |-> <<>>]
Null      == [t |-> "null", v |-> <<>>]
Bool(b)   == [t |-> "boolean", v |-> IF b THEN <<"t">> ELSE <<>>]
Num(ds)   == [t |-> "number", v |-> ds]
Str(s)    == [t |-> "string", v |-> s]

IsStr(x)  == x.t = "string"
IsTrue(x) == x = Bool(TRUE)

\* JavaScript truthiness, as used by `if (!value)`
Truthy(x) ==
  CASE x.t = "undefined" -> FALSE
    [] x.t = "null"      -> FALSE
    [] x.t = "boolean"   -> x.v # <<>>
    [] x.t = "number"    -> x.v # <<"0">>
    [] x.t = "string"    -> x.v # <<>>
    [] OTHER             -> TRUE

---------------------------------------------------------------------------
(* zod: an object schema is a sequence of field descriptions in the order  *)
(* the keys are written; parsing visits every key in that order and        *)
(* collects the issues of all of them.                                     *)

\* a check of a field: .regex(re, msg), .min(n, msg), .max(n, msg) or
\* .refine(val => val === true, msg)
NoRegex == [anchS |-> FALSE, atoms |-> <<>>, anchE |-> FALSE]
Regex(re, msg) == [kind |-> "regex", re |-> re, n |-> 0, message |-> msg]
Min(n, msg)    == [kind |-> "min", re |-> NoRegex, n |-> n, message |-> msg]
Max(n, msg)    == [kind |-> "max", re |-> NoRegex, n |-> n, message |-> msg]
RefineTrue(msg) == [kind |-> "refine", re |-> NoRegex, n |-> 0, message |-> msg]

ZString(key, checks)  == [key |-> key, type |-> "string", checks |-> checks]
ZBoolean(key, checks) == [key |-> key, type |-> "boolean", checks |-> checks]

Issue(path, msg) == [path |-> path, message |-> msg]

\* does value x (already of the right type) pass one check
Passes(check, x) ==
  CASE check.kind = "regex"  -> Test(check.re, x.v)
    [] check.kind = "min"    -> Len(x.v) >= check.n
    [] check.kind = "max"    -> Len(x.v) <= check.n
    [] check.kind = "refine" -> IsTrue(x)
    [] OTHER                 -> TRUE

RECURSIVE CheckIssues(_, _, _)
CheckIssues(key, checks, x) ==
  IF checks = <<>> THEN <<>>
  ELSE (IF Passes(checks[1], x) THEN <<>> ELSE <<Issue(<<key>>, checks[1].message)>>)
       \o CheckIssues(key, Tail(checks), x)

TypeMessage(expected, x) ==
  IF x.t = "undefined" THEN "Required"
  ELSE "Expected " \o expected \o ", received " \o x.t

ParseField(fs, x) ==
  IF x.t # fs.type THEN <<Issue(<<fs.key>>, TypeMessage(fs.type, x))>>
  ELSE CheckIssues(fs.key, fs.checks, x)

RECURSIVE ParseShapeFirstFailure(_, _)
\* mutant: parsing stops at the first key that fails
ParseShapeFirstFailure(shape, f) ==
  IF shape = <<>> THEN <<>>
  ELSE LET here == ParseField(shape[1], f[shape[1].key])
       IN  IF here # <<>> THEN here ELSE ParseShapeFirstFailure(Tail(shape), f)

RECURSIVE ParseShape(_, _)
ParseShape(shape, f) ==
  IF shape = <<>> THEN <<>>
  ELSE ParseField(shape[1], f[shape[1].key]) \o ParseShape(Tail(shape), f)

\* the issues of schema.safeParse(body); <<>> means success
ParseObject(shape, body) ==
  IF body.t # "object" THEN <<Issue(<<>>, TypeMessage("object", body))>>
  ELSE ParseShape(shape, body.f)

---------------------------------------------------------------------------
(* Request bodies *)

Fields == <<"aadhaarNumber", "entrepreneurName", "consent", "otp", "otpVerified",
            "organisationType", "panNumber", "panHolderName", "dob", "panConsent",
            "pincode", "state", "city">>
FieldSet == {Fields[i] : i \in 1..Len(Fields)}
\* mobileNumber is a key clients send that the submission schemas do not know
AllKeys == FieldSet \cup {"mobileNumber"}

Obj(f)  == [t |-> "object", f |-> f]
NoKeys  == [k \in AllKeys |-> Undefined]
ArrayBody == [t |-> "array", f |-> NoKeys]
Obj1(key, x) == Obj([NoKeys EXCEPT ![key] = x])

\* z.object strips the keys the shape does not name
Strip(f) == [k \in AllKeys |-> IF k \in FieldSet THEN f[k] ELSE Undefined]

---------------------------------------------------------------------------
(* validation.service: schemas *)

aadhaarSchema ==
  <<ZString("aadhaarNumber",
            <<Regex(aadhaarRegex, "Invalid Aadhaar format. Must be 12 digits starting with 2-9")>>)>>
panSchema ==
  <<ZString("panNumber", <<Regex(panRegex, "Invalid PAN format. Expected: ABCDE1234F")>>)>>
otpSchema ==
  <<ZString("otp", <<Regex(otpRegex, "Invalid OTP format. Must be 6 digits")>>)>>
pincodeSchema ==
  <<ZString("pincode", <<Regex(pincodeRegex, "Invalid PIN code format. Must be 6 digits")>>)>>

\* mutant: the consent flags are plain z.boolean()
submissionSchemaPlainConsent ==
  << ZString("aadhaarNumber", <<Regex(aadhaarRegex, "Invalid Aadhaar format")>>),
     ZString("entrepreneurName",
             <<Min(1, "Entrepreneur name is required"), Max(NameMax, "Name too long")>>),
     ZBoolean("consent", <<>>),
     ZString("otp", <<Regex(otpRegex, "Invalid OTP format")>>),
     ZBoolean("otpVerified", <<RefineTrue("OTP must be verified")>>),
     ZString("organisationType", <<Min(1, "Organisation type is required")>>),
     ZString("panNumber", <<Regex(panRegex, "Invalid PAN format")>>),
     ZString("panHolderName",
             <<Min(1, "PAN holder name is required"), Max(NameMax, "Name too long")>>),
     ZString("dob", <<Min(1, "Date of birth is required")>>),
     ZBoolean("panConsent", <<>>),
     ZString("pincode", <<Regex(pincodeRegex, "Invalid PIN code format")>>),
     ZString("state", <<Min(1, "State is required")>>),
     ZString("city", <<Min(1, "City is required")>>) >>

submissionSchema ==
  << ZString("aadhaarNumber", <<Regex(aadhaarRegex, "Invalid Aadhaar format")>>),
     ZString("entrepreneurName",
             <<Min(1, "Entrepreneur name is required"), Max(NameMax, "Name too long")>>),
     ZBoolean("consent", <<RefineTrue("Consent is required")>>),
     ZString("otp", <<Regex(otpRegex, "Invalid OTP format")>>),
     ZBoolean("otpVerified", <<RefineTrue("OTP must be verified")>>),
     ZString("organisationType", <<Min(1, "Organisation type is required")>>),
     ZString("panNumber", <<Regex(panRegex, "Invalid PAN format")>>),
     ZString("panHolderName",
             <<Min(1, "PAN holder name is required"), Max(NameMax, "Name too long")>>),
     ZString("dob", <<Min(1, "Date of birth is required")>>),
     ZBoolean("panConsent", <<RefineTrue("PAN consent is required")>>),
     ZString("pincode", <<Regex(pincodeRegex, "Invalid PIN code format")>>),
     ZString("state", <<Min(1, "State is required")>>),
     ZString("city", <<Min(1, "City is required")>>) >>

---------------------------------------------------------------------------
(* validation.service: ValidationService *)

Result(issues, withDetails) ==
  IF issues = <<>>
  THEN [valid |-> TRUE, error |-> "", details |-> <<>>]
  ELSE [valid |-> FALSE,
        error |-> IF withDetails THEN "Validation failed" ELSE issues[1].message,
        details |-> IF withDetails THEN issues ELSE <<>>]

validateAadhaar(x) == Result(ParseObject(aadhaarSchema, Obj1("aadhaarNumber", x)), FALSE)
validatePAN(x)     == Result(ParseObject(panSchema, Obj1("panNumber", x)), FALSE)
validateOTP(x)     == Result(ParseObject(otpSchema, Obj1("otp", x)), FALSE)
validatePincode(x) == Result(ParseObject(pincodeSchema, Obj1("pincode", x)), FALSE)

validateSubmission(body) == Result(ParseObject(submissionSchema, body), TRUE)

---------------------------------------------------------------------------
(* Inputs: strings for the single-field validators *)

DigitCycle == <<"2", "5", "9", "0", "1">>
\* a string of n digits that starts with 2
DigitString(n) == [i \in 1..n |-> DigitCycle[((i - 1) % Len(DigitCycle)) + 1]]
\* the first n characters of AFZAF1259FAZ...: 5 letters, 4 digits, letters
LetterCycle == <<"A", "F", "Z">>
PanString(n) ==
  [i \in 1..n |-> IF i \in 6..9 THEN DigitCycle[i - 5]
                  ELSE LetterCycle[((i - 1) % Len(LetterCycle)) + 1]]

Replace(s, p, c) == [s EXCEPT ![p] = c]
Swap(s, i, j)    == [s EXCEPT ![i] = s[j], ![j] = s[i]]

\* every edit of s by at most one replaced character or one transposition
Edits(s) ==
  {s} \cup {Replace(s, p, c) : p \in 1..Len(s), c \in Alphabet}
      \cup {Swap(s, i, j) : i \in 1..Len(s), j \in 1..Len(s)}

\* the same string in lower-case letters
LowerOf(c) == CASE c = "A" -> "a" [] c = "F" -> "f" [] c = "Z" -> "z" [] OTHER -> c
LowerPanString(n) == [i \in 1..n |-> LowerOf(PanString(n)[i])]

StrInputs ==
  UNION {Edits(DigitString(n)) \cup Edits(PanString(n)) \cup {LowerPanString(n)}
           : n \in 0..MaxStrLen}

---------------------------------------------------------------------------
(* Inputs: submission bodies *)

GoodAadhaar == Str(DigitString(12))
GoodOtp     == Str(DigitString(6))
GoodPan     == Str(PanString(10))
GoodPincode == Str(<<"5", "5", "0", "0", "1", "1">>)
BadPan      == Str(<<"B", "A", "D", "P", "A", "N", "0", "0", "0", "0", "X">>)

ValidRecord ==
  [NoKeys EXCEPT
     !["aadhaarNumber"]    = GoodAadhaar,
     !["entrepreneurName"] = Str(<<"A">>),
     !["consent"]          = Bool(TRUE),
     !["otp"]              = GoodOtp,
     !["otpVerified"]      = Bool(TRUE),
     !["organisationType"] = Str(<<"p", "r", "o", "p", "r", "i", "e", "t", "a", "r", "y">>),
     !["panNumber"]        = GoodPan,
     !["panHolderName"]    = Str(<<"A">>),
     !["dob"]              = Str(<<"1", "9", "9", "0", "-", "0", "1", "-", "0", "1">>),
     !["panConsent"]       = Bool(TRUE),
     !["pincode"]          = GoodPincode,
     !["state"]            = Str(<<"K", "A">>),
     !["city"]             = Str(<<"B", "L", "R">>)]

\* the other values a body may carry under key k
\* a name that carries a script element
ScriptBob == <<"<", "s", "c", "r", "i", "p", "t", ">", "<", "/", "s", "c", "r", "i", "p", "t", ">",
               "B", "o", "b">>
\* a name one character longer than validation.service allows
LongName == [i \in 1..(NameMax + 1) |-> "A"]

NameOf(n) == [i \in 1..n |-> "A"]

\* submissions that differ in the length of the two names
NameBodies ==
  {Obj([ValidRecord EXCEPT !["entrepreneurName"] = Str(NameOf(n)),
                           !["panHolderName"] = Str(NameOf(m))])
     : n \in {0, 1, NameMax, NameMax + 1}, m \in {1, NameMax + 1}}
  \cup {ArrayBody,
        Obj([ValidRecord EXCEPT !["entrepreneurName"] = Str(LongName), !["panNumber"] = BadPan])}

Deviations(k) ==
  CASE k = "aadhaarNumber" -> {Undefined, Num(DigitString(12)), Str(Replace(DigitString(12), 1, "1"))}
    [] k = "otp"           -> {Undefined, Num(DigitString(6)), Str(DigitString(5))}
    [] k = "panNumber"     -> {Undefined, Num(DigitString(4)), BadPan, Str(Swap(PanString(10), 5, 6))}
    [] k = "pincode"       -> {Undefined, Str(<<"5", "5", "0", "0", "1", " ">>)}
    [] k \in {"consent", "otpVerified", "panConsent"}
                           -> {Undefined, Bool(FALSE), Str(<<"t", "r", "u", "e">>)}
    [] k = "entrepreneurName" -> {Undefined, Str(<<>>), Str(ScriptBob)}
    [] k = "mobileNumber"  -> {Str(<<"9", "5", "5", "5", "5", "5", "5", "5", "5", "5">>)}
    [] OTHER               -> {Undefined, Str(<<>>)}

RECURSIVE Edited(_)
\* the records that differ from ValidRecord under at most n keys
Edited(n) ==
  IF n = 0 THEN {ValidRecord}
  ELSE LET prev == Edited(n - 1)
       IN  prev \cup UNION {{[f EXCEPT ![k] = v] : f \in prev, v \in Deviations(k)} : k \in AllKeys}

Bodies == {Obj(f) : f \in Edited(MaxBadFields)} \cup {ArrayBody}

\* values sent to the /validate/* routes
RouteValues ==
  {Undefined, Null, Bool(FALSE), Bool(TRUE), Num(<<"0">>), Num(DigitString(6)), Str(<<>>)}
  \cup {Str(DigitString(n)) : n \in {5, 6, 7, 11, 12, 13}}
  \cup {Str(PanString(n)) : n \in {9, 10, 11}}
  \cup {GoodPincode, BadPan, Str(Replace(DigitString(12), 1, "1")),
        Str(<<" ">> \o DigitString(6)), Str(DigitString(6) \o <<"\n">>),
        Str(Replace(PanString(10), 1, "a"))}

---------------------------------------------------------------------------
(* Direct calls of the validation service. The model runs one operation  *)
(* at a time: a call starts when no other call or request is under way.    *)

SvcIdle == [op |-> "none", arg |-> Undefined, body |-> Obj(NoKeys),
            out |-> Result(<<>>, FALSE)]

CallValidateAadhaar ==
  /\ svc.op = "none"
  /\ req.pc = "idle"
  /\ \E s \in StrInputs :
        svc' = [op |-> "validateAadhaar", arg |-> Str(s), body |-> Obj(NoKeys),
                out |-> validateAadhaar(Str(s))]
  /\ UNCHANGED <<prisma, dbClientAvailable, db, req, out, otherVars>>

CallValidatePAN ==
  /\ svc.op = "none"
  /\ req.pc = "idle"
  /\ \E s \in StrInputs :
        svc' = [op |-> "validatePAN", arg |-> Str(s), body |-> Obj(NoKeys),
                out |-> validatePAN(Str(s))]
  /\ UNCHANGED <<prisma, dbClientAvailable, db, req, out, otherVars>>

CallValidateOTP ==
  /\ svc.op = "none"
  /\ req.pc = "idle"
  /\ \E s \in StrInputs :
        svc' = [op |-> "validateOTP", arg |-> Str(s), body |-> Obj(NoKeys),
                out |-> validateOTP(Str(s))]
  /\ UNCHANGED <<prisma, dbClientAvailable, db, req, out, otherVars>>

CallValidatePincode ==
  /\ svc.op = "none"
  /\ req.pc = "idle"
  /\ \E s \in StrInputs :
        svc' = [op |-> "validatePincode", arg |-> Str(s), body |-> Obj(NoKeys),
                out |-> validatePincode(Str(s))]
  /\ UNCHANGED <<prisma, dbClientAvailable, db, req, out, otherVars>>

CallValidateSubmission ==
  /\ svc.op = "none"
  /\ req.pc = "idle"
  /\ \E body \in Bodies :
        svc' = [op |-> "validateSubmission", arg |-> Undefined, body |-> body,
                out |-> validateSubmission(body)]
  /\ UNCHANGED <<prisma, dbClientAvailable, db, req, out, otherVars>>

\* the caller takes the result; the next call may start
SvcReturn ==
  /\ svc.op # "none"
  /\ svc' = SvcIdle
  /\ UNCHANGED <<prisma, dbClientAvailable, db, req, out, otherVars>>

---------------------------------------------------------------------------
(* Form schemas. A schema document is [title, step, fields]; a field keeps *)
(* id, name, label, placeholder and pattern as strings (<<>> where the     *)
(* property is undefined), its type, validation.required (a boolean or     *)
(* undefined) and validation.maxLength (0 where undefined). minLength,     *)
(* helpText and options are left out.                                      *)

Field(id, name, label, placeholder, type, required, maxLength, pattern) ==
  [id |-> id, name |-> name, label |-> label, placeholder |-> placeholder,
   type |-> type, required |-> required, maxLength |-> maxLength, pattern |-> pattern]

NoDoc == [title |-> "", step |-> 0, fields |-> <<>>]

\* schema/src/index.ts: the static default of step 1
step1Schema ==
  [title |-> "Udyam Registration - Step 1 (Aadhaar & OTP)", step |-> 1, fields |->
  << Field(<<"a", "a", "d", "h", "a", "a", "r", "N", "u", "m", "b", "e", "r">>,
         <<"a", "a", "d", "h", "a", "a", "r", "N", "u", "m", "b", "e", "r">>,
         <<"A", "a", "d", "h", "a", "a", "r", " ", "N", "u", "m", "b", "e", "r">>,
         <<"E", "n", "t", "e", "r", " ", "1", "2", "-", "d", "i", "g", "i", "t", " ", "A", "a", "d", "h", "a", "a", "r">>,
         "tel", Bool(TRUE), 12,
         <<"^", "[", "2", "-", "9", "]", "[", "0", "-", "9", "]", "{", "1", "1", "}", "$">>),
     Field(<<"m", "o", "b", "i", "l", "e", "N", "u", "m", "b", "e", "r">>,
         <<"m", "o", "b", "i", "l", "e", "N", "u", "m", "b", "e", "r">>,
         <<"M", "o", "b", "i", "l", "e", " ", "N", "u", "m", "b", "e", "r", " ", "(", "l", "i", "n", "k", "e", "d", " ", "t", "o", " ", "A", "a", "d", "h", "a", "a", "r", ")">>,
         <<"E", "n", "t", "e", "r", " ", "1", "0", "-", "d", "i", "g", "i", "t", " ", "m", "o", "b", "i", "l", "e">>,
         "tel", Bool(TRUE), 10,
         <<"^", "[", "6", "-", "9", "]", "[", "0", "-", "9", "]", "{", "9", "}", "$">>),
     Field(<<"o", "t", "p">>,
         <<"o", "t", "p">>,
         <<"O", "T", "P">>,
         <<"E", "n", "t", "e", "r", " ", "6", "-", "d", "i", "g", "i", "t", " ", "O", "T", "P">>,
         "otp", Bool(TRUE), 6,
         <<"^", "[", "0", "-", "9", "]", "{", "6", "}", "$">>) >>]

\* schema/src/index.ts: the static default of step 2
step2Schema ==
  [title |-> "Udyam Registration - Step 2 (PAN Validation)", step |-> 2, fields |->
  << Field(<<"p", "a", "n", "N", "u", "m", "b", "e", "r">>,
         <<"p", "a", "n", "N", "u", "m", "b", "e", "r">>,
         <<"P", "A", "N", " ", "N", "u", "m", "b", "e", "r">>,
         <<"A", "B", "C", "D", "E", "1", "2", "3", "4", "F">>,
         "text", Bool(TRUE), 10,
         <<"^", "[", "A", "-", "Z", "]", "{", "5", "}", "[", "0", "-", "9", "]", "{", "4", "}", "[", "A", "-", "Z", "]", "{", "1", "}", "$">>),
     Field(<<"p", "i", "n", "c", "o", "d", "e">>,
         <<"p", "i", "n", "c", "o", "d", "e">>,
         <<"P", "I", "N", " ", "C", "o", "d", "e">>,
         <<"6", "-", "d", "i", "g", "i", "t", " ", "P", "I", "N">>,
         "tel", Bool(FALSE), 6,
         <<"^", "[", "0", "-", "9", "]", "{", "6", "}", "$">>),
     Field(<<"s", "t", "a", "t", "e">>,
         <<"s", "t", "a", "t", "e">>,
         <<"S", "t", "a", "t", "e">>,
         <<>>,
         "text", Bool(FALSE), 0,
         <<>>),
     Field(<<"c", "i", "t", "y">>,
         <<"c", "i", "t", "y">>,
         <<"C", "i", "t", "y">>,
         <<>>,
         "text", Bool(FALSE), 0,
         <<>>) >>]

\* scrape-step2.ts: the hand-authored document written when nothing was scraped
createFallback ==
  [title |-> "Udyam Registration - Step 2 (PAN Validation)", step |-> 2, fields |->
  << Field(<<"p", "a", "n", "N", "u", "m", "b", "e", "r">>,
         <<"p", "a", "n", "N", "u", "m", "b", "e", "r">>,
         <<"P", "A", "N", " ", "N", "u", "m", "b", "e", "r">>,
         <<"A", "B", "C", "D", "E", "1", "2", "3", "4", "F">>,
         "text", Bool(TRUE), 10,
         <<"^", "[", "A", "-", "Z", "]", "{", "5", "}", "[", "0", "-", "9", "]", "{", "4", "}", "[", "A", "-", "Z", "]", "{", "1", "}", "$">>),
     Field(<<"p", "i", "n", "c", "o", "d", "e">>,
         <<"p", "i", "n", "c", "o", "d", "e">>,
         <<"P", "I", "N", " ", "C", "o", "d", "e">>,
         <<"6", "-", "d", "i", "g", "i", "t", " ", "P", "I", "N">>,
         "tel", Undefined, 6,
         <<"^", "[", "0", "-", "9", "]", "{", "6", "}", "$">>),
     Field(<<"s", "t", "a", "t", "e">>,
         <<"s", "t", "a", "t", "e">>,
         <<"S", "t", "a", "t", "e">>,
         <<>>,
         "text", Undefined, 0,
         <<>>),
     Field(<<"c", "i", "t", "y">>,
         <<"c", "i", "t", "y">>,
         <<"C", "i", "t", "y">>,
         <<>>,
         "text", Undefined, 0,
         <<>>) >>]

\* server.ts fallbackSchemas(): step1Schema
fallbackStep1Schema ==
  [title |-> "Step 1", step |-> 1, fields |->
  << Field(<<"a", "a", "d", "h", "a", "a", "r", "N", "u", "m", "b", "e", "r">>,
         <<"a", "a", "d", "h", "a", "a", "r", "N", "u", "m", "b", "e", "r">>,
         <<"A", "a", "d", "h", "a", "a", "r", " ", "N", "u", "m", "b", "e", "r">>,
         <<>>,
         "tel", Undefined, 12,
         <<>>),
     Field(<<"m", "o", "b", "i", "l", "e", "N", "u", "m", "b", "e", "r">>,
         <<"m", "o", "b", "i", "l", "e", "N", "u", "m", "b", "e", "r">>,
         <<"M", "o", "b", "i", "l", "e", " ", "N", "u", "m", "b", "e", "r">>,
         <<>>,
         "tel", Undefined, 10,
         <<>>),
     Field(<<"o", "t", "p">>,
         <<"o", "t", "p">>,
         <<"O", "T", "P">>,
         <<>>,
         "tel", Undefined, 6,
         <<>>) >>]

\* server.ts fallbackSchemas(): step2Schema
fallbackStep2Schema ==
  [title |-> "Step 2", step |-> 2, fields |->
  << Field(<<"p", "a", "n", "N", "u", "m", "b", "e", "r">>,
         <<"p", "a", "n", "N", "u", "m", "b", "e", "r">>,
         <<"P", "A", "N", " ", "N", "u", "m", "b", "e", "r">>,
         <<>>,
         "text", Undefined, 10,
         <<>>) >>]


\* step === 1 ? step1Schema : step2Schema
StaticSchema(step) == IF step = 1 THEN step1Schema ELSE step2Schema

\* the files schema/generated/step1.json and step2.json: a file is missing,
\* or holds the whole JSON text of a document, or (whole = FALSE) only the
\* part of the text that writeFileSync has put down so far
Steps    == {1, 2}
NoFile   == [exists |-> FALSE, whole |-> FALSE, doc |-> NoDoc]
PartOf(doc)  == [exists |-> TRUE, whole |-> FALSE, doc |-> doc]
WholeOf(doc) == [exists |-> TRUE, whole |-> TRUE, doc |-> doc]
NoFiles  == [s \in Steps |-> NoFile]

---------------------------------------------------------------------------
(* server.ts: responses *)

NoData == NoKeys

Response(status) ==
  [status |-> status, valid |-> Undefined, stored |-> Undefined, error |-> "",
   message |-> "", details |-> <<>>, id |-> 0, data |-> NoData, schema |-> NoDoc]

NoResponse == Response(0)

\* one exchange: the request being handled and, once answered, its response
\* sink: how far the request got with the persistence sink: "none" (never
\* reached), "noClient" (getPrisma gave null), "pending" (create called),
\* "rejected" (create failed), "stored"
\* step, file: the step a GET route is asked for and the cache file it finds
\* sent: how often the handler has sent a response
IdleReq == [pc |-> "idle", ep |-> "", body |-> Obj(NoKeys), client |-> 0, sink |-> "none",
            step |-> 0, file |-> NoFile, sent |-> 0]

Answer(ep, body, sink, resp) ==
  /\ req' = [IdleReq EXCEPT !.pc = "responded", !.ep = ep, !.body = body, !.sink = sink,
                            !.sent = req.sent + 1]
  /\ out' = resp

---------------------------------------------------------------------------
(* server.ts: POST /validate/pan, /validate/aadhaar, /validate/otp, /validate/pincode *)

\* the JSON bodies sent to a /validate/* route
RouteBodies(key) == {Obj1(key, x) : x \in RouteValues} \cup {ArrayBody}

\* mutant: the `if (!value)` guard left out
ValidateResponseNoGuard(x, result, requiredMsg, okMsg) ==
  IF result.valid
  THEN [Response(200) EXCEPT !.valid = Bool(TRUE), !.message = okMsg]
  ELSE [Response(400) EXCEPT !.valid = Bool(FALSE), !.error = result.error]

ValidateResponse(x, result, requiredMsg, okMsg) ==
  IF ~Truthy(x) THEN [Response(400) EXCEPT !.error = requiredMsg]
  ELSE IF result.valid
       THEN [Response(200) EXCEPT !.valid = Bool(TRUE), !.message = okMsg]
       ELSE [Response(400) EXCEPT !.valid = Bool(FALSE), !.error = result.error]

ValidatePanRoute ==
  /\ req.pc = "idle"
  /\ svc.op = "none"
  /\ \E body \in RouteBodies("panNumber") :
        LET panNumber == body.f["panNumber"] IN
          Answer("/validate/pan", body, "none",
                 ValidateResponse(panNumber, validatePAN(panNumber),
                                  "PAN number is required", "PAN format is valid"))
  /\ UNCHANGED <<svc, prisma, dbClientAvailable, db, otherVars>>

ValidateAadhaarRoute ==
  /\ req.pc = "idle"
  /\ svc.op = "none"
  /\ \E body \in RouteBodies("aadhaarNumber") :
        LET aadhaarNumber == body.f["aadhaarNumber"] IN
          Answer("/validate/aadhaar", body, "none",
                 ValidateResponse(aadhaarNumber, validateAadhaar(aadhaarNumber),
                                  "Aadhaar number is required", "Aadhaar format is valid"))
  /\ UNCHANGED <<svc, prisma, dbClientAvailable, db, otherVars>>

ValidateOtpRoute ==
  /\ req.pc = "idle"
  /\ svc.op = "none"
  /\ \E body \in RouteBodies("otp") :
        LET otp == body.f["otp"] IN
          Answer("/validate/otp", body, "none",
                 ValidateResponse(otp, validateOTP(otp),
                                  "OTP is required", "OTP format is valid"))
  /\ UNCHANGED <<svc, prisma, dbClientAvailable, db, otherVars>>

ValidatePincodeRoute ==
  /\ req.pc = "idle"
  /\ svc.op = "none"
  /\ \E body \in RouteBodies("pincode") :
        LET pincode == body.f["pincode"] IN
          Answer("/validate/pincode", body, "none",
                 ValidateResponse(pincode, validatePincode(pincode),
                                  "PIN code is required", "PIN code format is valid"))
  /\ UNCHANGED <<svc, prisma, dbClientAvailable, db, otherVars>>

---------------------------------------------------------------------------
(* server.ts: POST /submit and the lazily loaded database client *)

\* mutant: panConsent is a plain z.boolean()
submitSchemaPlainPanConsent ==
  << ZString("aadhaarNumber", <<Regex(aadhaarRegex, "Invalid Aadhaar format")>>),
     ZString("entrepreneurName", <<Min(1, "Entrepreneur name is required")>>),
     ZBoolean("consent", <<RefineTrue("Consent is required")>>),
     ZString("otp", <<Regex(otpRegex, "Invalid OTP format")>>),
     ZBoolean("otpVerified", <<RefineTrue("OTP must be verified")>>),
     ZString("organisationType", <<Min(1, "Organisation type is required")>>),
     ZString("panNumber", <<Regex(panRegex, "Invalid PAN format")>>),
     ZString("panHolderName", <<Min(1, "PAN holder name is required")>>),
     ZString("dob", <<Min(1, "Date of birth is required")>>),
     ZBoolean("panConsent", <<>>),
     ZString("pincode", <<Regex(pincodeRegex, "Invalid PIN code format")>>),
     ZString("state", <<Min(1, "State is required")>>),
     ZString("city", <<Min(1, "City is required")>>) >>

\* the schema written inside the /submit handler
submitSchema ==
  << ZString("aadhaarNumber", <<Regex(aadhaarRegex, "Invalid Aadhaar format")>>),
     ZString("entrepreneurName", <<Min(1, "Entrepreneur name is required")>>),
     ZBoolean("consent", <<RefineTrue("Consent is required")>>),
     ZString("otp", <<Regex(otpRegex, "Invalid OTP format")>>),
     ZBoolean("otpVerified", <<RefineTrue("OTP must be verified")>>),
     ZString("organisationType", <<Min(1, "Organisation type is required")>>),
     ZString("panNumber", <<Regex(panRegex, "Invalid PAN format")>>),
     ZString("panHolderName", <<Min(1, "PAN holder name is required")>>),
     ZString("dob", <<Min(1, "Date of birth is required")>>),
     ZBoolean("panConsent", <<RefineTrue("PAN consent is required")>>),
     ZString("pincode", <<Regex(pincodeRegex, "Invalid PIN code format")>>),
     ZString("state", <<Min(1, "State is required")>>),
     ZString("city", <<Min(1, "City is required")>>) >>

\* parsed: the issues of submissionSchema.safeParse(req.body)
SubmitParse(body) == ParseObject(submitSchema, body)

ValidationFailed(issues) ==
  [Response(400) EXCEPT !.error = "Validation failed", !.details = issues]

NotStored(data) ==
  [Response(202) EXCEPT !.stored = Bool(FALSE),
     !.message = "Database not configured. Data accepted for validation only.",
     !.data = data]

Stored(id) ==
  [Response(200) EXCEPT !.stored = Bool(TRUE), !.id = id,
     !.message = "Udyam registration submitted successfully"]

InternalError ==
  [Response(500) EXCEPT !.error = "Internal server error",
     !.message = "Failed to store submission"]

\* mutant: no catch block around create, nothing is sent
CreateFailedUnanswered(data) == NoResponse

\* what the handler answers when client.udyamSubmission.create rejects
CreateFailed(data) == InternalError

\* what the handler answers when getPrisma resolves to null
NoClient(data) == NotStored(data)

\* the request arrives with one of the bodies: safeParse, then getPrisma up
\* to its first await
SubmitReceiveFrom(bodies) ==
  /\ req.pc = "idle"
  /\ svc.op = "none"
  /\ Len(db) < MaxStored
  /\ \E body \in bodies :
        LET issues == SubmitParse(body) IN
          IF issues # <<>>
          THEN Answer("/submit", body, "none", ValidationFailed(issues))
          ELSE /\ req' = [IdleReq EXCEPT !.ep = "/submit", !.body = body,
                            !.pc = IF prisma # 0 THEN "creating" ELSE "importing",
                            !.client = prisma,
                            !.sink = IF prisma # 0 THEN "pending" ELSE "none"]
               /\ out' = NoResponse
  /\ UNCHANGED <<svc, prisma, dbClientAvailable, db, otherVars>>

SubmitReceive == SubmitReceiveFrom(Bodies)

\* getPrisma: the dynamic import settles
getPrisma ==
  /\ req.pc = "importing"
  /\ IF dbClientAvailable
     THEN /\ prisma' = prisma + 1
          /\ req' = [req EXCEPT !.pc = "creating", !.client = prisma + 1, !.sink = "pending"]
          /\ out' = out
     ELSE /\ prisma' = prisma
          /\ Answer("/submit", req.body, "noClient", NoClient(Strip(req.body.f)))
  /\ UNCHANGED <<svc, dbClientAvailable, db, otherVars>>

\* client.udyamSubmission.create settles: the sink stores the record and
\* generates its id, or rejects
SubmitCreate(ok) ==
  LET data == Strip(req.body.f)
      id   == Len(db) + 1
  IN
  /\ req.pc = "creating"
  /\ IF ok
     THEN /\ db' = Append(db, [id |-> id, data |-> data, status |-> "pending"])
          /\ Answer("/submit", req.body, "stored", Stored(id))
     ELSE /\ db' = db
          /\ Answer("/submit", req.body, "rejected", CreateFailed(data))
  /\ UNCHANGED <<svc, prisma, dbClientAvailable, otherVars>>

\* the client takes the response; the next request may arrive
Deliver ==
  /\ req.pc = "responded"
  /\ req' = IdleReq
  /\ out' = NoResponse
  /\ UNCHANGED <<svc, prisma, dbClientAvailable, db, otherVars>>

---------------------------------------------------------------------------
(* validation.service: sanitizeInput *)

WordChars  == Digits \cup Upper \cup Lower \cup {"_"}
WhiteSpace == {" ", "\n", "\t"}

UpperSeq == <<"A", "B", "C", "D", "E", "F", "G", "H", "I", "J", "K", "L", "M",
              "N", "O", "P", "Q", "R", "S", "T", "U", "V", "W", "X", "Y", "Z">>
LowerSeq == <<"a", "b", "c", "d", "e", "f", "g", "h", "i", "j", "k", "l", "m",
              "n", "o", "p", "q", "r", "s", "t", "u", "v", "w", "x", "y", "z">>

toLowerCase(c) ==
  IF c \in Upper THEN LowerSeq[CHOOSE i \in 1..26 : UpperSeq[i] = c] ELSE c

\* String.prototype.toLowerCase
LowerCase(t) == [i \in 1..Len(t) |-> toLowerCase(t[i])]

Least(S)    == CHOOSE x \in S : \A y \in S : x <= y
Greatest(S) == CHOOSE x \in S : \A y \in S : y <= x

\* the literal lit (written in lower case) stands at position i of s, under
\* the i flag
LooksAt(s, i, lit) ==
  /\ i + Len(lit) - 1 <= Len(s)
  /\ \A k \in 1..Len(lit) : toLowerCase(s[i + k - 1]) = lit[k]

\* how many characters of the class follow each other from position i on
RunLen(s, i, cls) ==
  LET stops == {j \in i..Len(s) : s[j] \notin cls}
  IN  IF stops = {} THEN Len(s) - i + 1 ELSE Least(stops) - i

ScriptOpen      == <<"<", "s", "c", "r", "i", "p", "t">>
ScriptClose     == <<"<", "/", "s", "c", "r", "i", "p", "t", ">">>
JavascriptColon == <<"j", "a", "v", "a", "s", "c", "r", "i", "p", "t", ":">>
On              == <<"o", "n">>

\* /<script\b[^<]*(?:(?!<\/script>)<[^<]*)*<\/script>/gi at position i: the
\* length of the match, 0 when there is none. After "<script" and the word
\* boundary, [^<]* and the group consume everything except a "<" that opens
\* "</script>", so the match ends with the first "</script>" that follows.
scriptRegex(s, i) ==
  LET after == i + Len(ScriptOpen) IN
  IF ~LooksAt(s, i, ScriptOpen) THEN 0
  ELSE IF after <= Len(s) /\ s[after] \in WordChars THEN 0
  ELSE LET ends == {j \in after..Len(s) : LooksAt(s, j, ScriptClose)}
       IN  IF ends = {} THEN 0 ELSE Least(ends) + Len(ScriptClose) - i

\* /javascript:/gi at position i
javascriptRegex(s, i) ==
  IF LooksAt(s, i, JavascriptColon) THEN Len(JavascriptColon) ELSE 0

\* /on\w+\s*=/gi at position i: \w+ and \s* are greedy, and giving back a
\* character never helps, because "=" is neither a word character nor space
onRegex(s, i) ==
  LET w    == RunLen(s, i + Len(On), WordChars)
      sp   == RunLen(s, i + Len(On) + w, WhiteSpace)
      last == i + Len(On) + w + sp
  IN  IF ~LooksAt(s, i, On) THEN 0
      ELSE IF w >= 1 /\ last <= Len(s) /\ s[last] = "=" THEN last - i + 1 ELSE 0

RegexLen(re, s, i) ==
  CASE re = "script"     -> scriptRegex(s, i)
    [] re = "javascript" -> javascriptRegex(s, i)
    [] re = "on"         -> onRegex(s, i)

\* s.replace(re, '') with the g flag: matches are looked for from left to
\* right, and the search goes on behind each match
RECURSIVE RemoveFrom(_, _, _)
RemoveFrom(re, s, i) ==
  IF i > Len(s) THEN <<>>
  ELSE LET n == RegexLen(re, s, i)
       IN  IF n > 0 THEN RemoveFrom(re, s, i + n)
           ELSE <<s[i]>> \o RemoveFrom(re, s, i + 1)

RemoveMatches(re, s) == RemoveFrom(re, s, 1)

trim(s) ==
  LET keep == {i \in 1..Len(s) : s[i] \notin WhiteSpace}
  IN  IF keep = {} THEN <<>> ELSE SubSeq(s, Least(keep), Greatest(keep))

\* mutant: the javascript: pass left out
sanitizeStringNoJavascript(value) ==
  trim(RemoveMatches("on", RemoveMatches("script", value)))

\* the chain of replace calls and trim applied to one string value
sanitizeString(value) ==
  trim(RemoveMatches("on", RemoveMatches("javascript", RemoveMatches("script", value))))

\* a record given to sanitizeInput: a value for every key, Absent for the
\* keys the object does not have
Absent   == [t |-> "absent", v |-> <<>>]
SanKeys  == {"name", "consent", "otp"}
Entries(data) == {k \in DOMAIN data : data[k] # Absent}

sanitizeInput(data) ==
  [key \in DOMAIN data |->
     IF key \notin Entries(data) THEN Absent
     ELSE IF IsStr(data[key]) THEN Str(sanitizeString(data[key].v))
     ELSE data[key]]

\* the pieces input strings are put together from
SanPieces ==
  { <<"<", "s", "c", "r", "i", "p", "t", ">", "a", "l", "e", "r", "t", "(", "1", ")">>,
    <<"<", "/", "s", "c", "r", "i", "p", "t", ">">>,
    <<"J", "o", "h", "n">>,
    <<"j", "a", "v", "a", "s", "c", "r", "i", "p", "t", ":">>,
    <<"J", "A", "V", "A">>,
    <<"S", "c", "r", "i", "p", "t", ":">>,
    <<"O", "N", "l", "o", "a", "d", " ", "=">>,
    <<" ">> }

RECURSIVE Joined(_)
Joined(n) ==
  IF n = 0 THEN {<<>>}
  ELSE LET prev == Joined(n - 1) IN prev \cup {p \o q : p \in prev, q \in SanPieces}

SanStrings == Joined(MaxPieces)

SanRecords ==
  {[key \in SanKeys |-> IF key = "name" THEN Str(s) ELSE Absent] : s \in SanStrings}
  \cup {[name |-> Str(s), consent |-> Bool(TRUE), otp |-> Num(DigitString(6))] : s \in SanStrings}

SanIdle == [op |-> "none", data |-> [key \in SanKeys |-> Absent],
            out |-> [key \in SanKeys |-> Absent]]

CallSanitizeInput ==
  /\ san.op = "none"
  /\ \E data \in SanRecords :
        san' = [op |-> "sanitizeInput", data |-> data, out |-> sanitizeInput(data)]
  /\ UNCHANGED <<serverVars, moreVars, cache, scraper, fetcher, form>>

SanReturn ==
  /\ san.op # "none"
  /\ san' = SanIdle
  /\ UNCHANGED <<serverVars, moreVars, cache, scraper, fetcher, form>>

---------------------------------------------------------------------------
(* scraper: the page elements a run finds, and how scrape.ts (step 1) and  *)
(* scrape-step2.ts (step 2) turn them into a schema document               *)

None        == [has |-> FALSE, text |-> <<>>]
Label(text) == [has |-> TRUE, text |-> text]

\* a || b on strings
Or(a, b) == IF a # <<>> THEN a ELSE b

\* an input named by a label element that points at its id
PanInput ==
  [id |-> <<"t", "x", "t", "P", "a", "n">>, name |-> <<"p", "a", "n">>,
   forLabel |-> Label(<<" ", "P", "A", "N", " ", "N", "o", " ">>), prevLabel |-> None,
   aria |-> <<>>, placeholder |-> <<>>,
   tag |-> "INPUT", type |-> "text", required |-> TRUE, maxLength |-> 10,
   pattern |-> <<"[", "A", "-", "Z", "]", "{", "5", "}", "[", "0", "-", "9", "]", "{", "4", "}", "[", "A", "-", "Z", "]">>]

\* an input without id behind a label element
PinInput ==
  [id |-> <<>>, name |-> <<"p", "i", "n">>,
   forLabel |-> None, prevLabel |-> Label(<<"P", "i", "n", " ", " ", "C", "o", "d", "e">>),
   aria |-> <<>>, placeholder |-> <<>>,
   tag |-> "INPUT", type |-> "tel", required |-> FALSE, maxLength |-> 6,
   pattern |-> <<>>]

\* a select that only has a name
StateSelect ==
  [id |-> <<"d", "d", "l", "S", "t", "a", "t", "e">>, name |-> <<"s", "t", "a", "t", "e">>,
   forLabel |-> None, prevLabel |-> None,
   aria |-> <<>>, placeholder |-> <<>>,
   tag |-> "SELECT", type |-> "select-one", required |-> FALSE, maxLength |-> 0,
   pattern |-> <<>>]

\* an input that only has a placeholder
CityInput ==
  [id |-> <<>>, name |-> <<>>,
   forLabel |-> None, prevLabel |-> None,
   aria |-> <<>>, placeholder |-> <<"C", "i", "t", "y">>,
   tag |-> "INPUT", type |-> "text", required |-> FALSE, maxLength |-> 0,
   pattern |-> <<>>]

\* an input whose label holds "pan" inside a word
CompanyInput ==
  [id |-> <<"c", "o">>, name |-> <<>>,
   forLabel |-> Label(<<"C", "o", "m", "p", "a", "n", "y">>), prevLabel |-> None,
   aria |-> <<>>, placeholder |-> <<>>,
   tag |-> "INPUT", type |-> "text", required |-> FALSE, maxLength |-> 0,
   pattern |-> <<>>]

\* an input whose label element is empty, with a placeholder
BlankLabelInput ==
  [id |-> <<"p", "2">>, name |-> <<>>,
   forLabel |-> Label(<<>>), prevLabel |-> None,
   aria |-> <<>>, placeholder |-> <<"P", "A", "N">>,
   tag |-> "INPUT", type |-> "text", required |-> FALSE, maxLength |-> 0,
   pattern |-> <<>>]

\* an input named by aria-label only
AriaInput ==
  [id |-> <<>>, name |-> <<>>,
   forLabel |-> None, prevLabel |-> None,
   aria |-> <<"M", "o", "b", "i", "l", "e">>, placeholder |-> <<>>,
   tag |-> "INPUT", type |-> "tel", required |-> TRUE, maxLength |-> 0,
   pattern |-> <<>>]

\* a hidden input
HiddenInput ==
  [id |-> <<"v", "s">>, name |-> <<"v", "s">>,
   forLabel |-> None, prevLabel |-> None,
   aria |-> <<>>, placeholder |-> <<>>,
   tag |-> "INPUT", type |-> "hidden", required |-> FALSE, maxLength |-> 0,
   pattern |-> <<>>]

Elements == {PanInput, PinInput, StateSelect, CityInput, CompanyInput, BlankLabelInput, AriaInput, HiddenInput}


RECURSIVE DomsUpTo(_)
DomsUpTo(n) ==
  IF n = 0 THEN {<<>>}
  ELSE LET prev == DomsUpTo(n - 1) IN prev \cup {Append(d, e) : d \in prev, e \in Elements}

\* the pages a run of the scraper may find
DomInputs == DomsUpTo(MaxInputs)

\* scrape-step2.ts getLabel
getLabel(el) ==
  IF el.id # <<>> /\ el.forLabel.has THEN trim(el.forLabel.text)
  ELSE IF el.prevLabel.has THEN trim(el.prevLabel.text)
  ELSE Or(el.placeholder, Or(el.name, el.id))

\* scrape.ts getLabelFor
getLabelFor(el) ==
  IF el.id # <<>> /\ el.forLabel.has THEN trim(el.forLabel.text)
  ELSE IF el.prevLabel.has THEN trim(el.prevLabel.text)
  ELSE Or(el.aria, Or(el.placeholder, Or(el.name, el.id)))

\* label.replace(/\s+/g, "_").toLowerCase()
RECURSIVE Underscored(_)
Underscored(s) ==
  IF s = <<>> THEN <<>>
  ELSE IF s[1] \in WhiteSpace
       THEN <<"_">> \o Underscored(SubSeq(s, RunLen(s, 1, WhiteSpace) + 1, Len(s)))
       ELSE <<toLowerCase(s[1])>> \o Underscored(Tail(s))

\* el.type || (el.tagName === "SELECT" ? "select" : "text")
TypeOf(el) ==
  IF el.type # "" THEN el.type ELSE IF el.tag = "SELECT" THEN "select" ELSE "text"

\* the field both scrapers make of an element and its label
toField(el, label) ==
  Field(Or(el.id, Or(el.name, Underscored(label))),
        Or(el.name, Or(el.id, Underscored(label))),
        label, el.placeholder, TypeOf(el), Bool(el.required),
        IF el.maxLength > 0 THEN el.maxLength ELSE 0, el.pattern)

Map1(dom) == [i \in 1..Len(dom) |-> toField(dom[i], getLabelFor(dom[i]))]
Map2(dom) == [i \in 1..Len(dom) |-> toField(dom[i], getLabel(dom[i]))]

slice(s, n) == SubSeq(s, 1, IF n < Len(s) THEN n ELSE Len(s))

StartsAt(s, i, lit) ==
  i >= 1 /\ i + Len(lit) - 1 <= Len(s) /\ SubSeq(s, i, i + Len(lit) - 1) = lit

\* String.prototype.includes
includes(s, lit) == \E i \in 1..Len(s) : StartsAt(s, i, lit)

Pan  == <<"p", "a", "n">>
Pin  == <<"p", "i", "n">>
Code == <<"c", "o", "d", "e">>

\* /\bpan\b/.test(txt)
TestPanWord(txt) ==
  \E i \in 1..Len(txt) :
     /\ StartsAt(txt, i, Pan)
     /\ i = 1 \/ txt[i - 1] \notin WordChars
     /\ i + Len(Pan) > Len(txt) \/ txt[i + Len(Pan)] \notin WordChars

\* /pin\s*code|pincode/.test(txt)
TestPinCode(txt) ==
  \/ \E i \in 1..Len(txt) :
        /\ StartsAt(txt, i, Pin)
        /\ StartsAt(txt, i + Len(Pin) + RunLen(txt, i + Len(Pin), WhiteSpace), Code)
  \/ includes(txt, Pin \o Code)

\* /state/.test(txt)
TestState(txt) == includes(txt, <<"s", "t", "a", "t", "e">>)

\* /city|district/.test(txt)
TestCityDistrict(txt) ==
  includes(txt, <<"c", "i", "t", "y">>)
    \/ includes(txt, <<"d", "i", "s", "t", "r", "i", "c", "t">>)

\* the filter of scrape-step2.ts over label and placeholder
IsStep2Input(el) ==
  LET txt == LowerCase(getLabel(el) \o <<" ">> \o el.placeholder)
  IN  TestPanWord(txt) \/ TestPinCode(txt) \/ TestState(txt) \/ TestCityDistrict(txt)

\* the filter of scrape.ts over the input type
IsStep1Input(el) == el.type \notin {"hidden", "submit", "button", "image"}

\* the comparator of result.sort in scrape-step2.ts
PanFirst(a, b) ==
  IF includes(LowerCase(a.label), Pan) THEN -1
  ELSE IF includes(LowerCase(b.label), Pan) THEN 1 ELSE 0

Reverse(s) == [i \in 1..Len(s) |-> s[Len(s) + 1 - i]]

\* Array.prototype.sort of V8 on fewer than 64 elements: the leading run is
\* found (and reversed when it descends), then every later element is put
\* in place by binary insertion
RECURSIVE RunEnd(_, _, _)
RunEnd(a, idx, descending) ==
  IF idx > Len(a) THEN idx - 1
  ELSE LET order == PanFirst(a[idx], a[idx - 1])
       IN  IF (descending /\ order >= 0) \/ (~descending /\ order < 0)
           THEN idx - 1
           ELSE RunEnd(a, idx + 1, descending)

RECURSIVE InsertionPoint(_, _, _, _)
InsertionPoint(a, pivot, left, right) ==
  IF left >= right THEN left
  ELSE LET mid == left + ((right - left) \div 2)
       IN  IF PanFirst(pivot, a[mid]) < 0
           THEN InsertionPoint(a, pivot, left, mid)
           ELSE InsertionPoint(a, pivot, mid + 1, right)

RECURSIVE InsertFrom(_, _)
InsertFrom(a, start) ==
  IF start > Len(a) THEN a
  ELSE LET pivot == a[start]
           at    == InsertionPoint(a, pivot, 1, start)
       IN  InsertFrom(SubSeq(a, 1, at - 1) \o <<pivot>> \o SubSeq(a, at, start - 1)
                        \o SubSeq(a, start + 1, Len(a)),
                      start + 1)

sort(a) ==
  IF Len(a) < 2 THEN a
  ELSE LET descending == PanFirst(a[2], a[1]) < 0
           run        == RunEnd(a, 3, descending)
           made       == IF descending
                         THEN Reverse(SubSeq(a, 1, run)) \o SubSeq(a, run + 1, Len(a))
                         ELSE a
       IN  InsertFrom(made, run + 1)

\* page.evaluate of scrape.ts: what `fields` becomes
evaluate1(dom) == Map1(slice(SelectSeq(dom, IsStep1Input), InputCap))

\* page.evaluate of scrape-step2.ts: what `fields` becomes
evaluate2(dom) == slice(sort(Map2(SelectSeq(dom, IsStep2Input))), FieldCap)

Scraped(step, fields) ==
  [title |-> "Udyam Registration (scraped)", step |-> step, fields |-> fields]

\* mutant: the scraped fields are written whatever their number
schemaOfStep2NoFallback(fields) == Scraped(2, fields)

\* scrape-step2.ts: const schema = fields && fields.length >= 1 ? ... : createFallback()
schemaOfStep2(fields) ==
  IF Len(fields) >= 1 THEN Scraped(2, fields) ELSE createFallback

\* scrape.ts: const schema = { title, step: 1, fields }
schemaOfStep1(fields) == Scraped(1, fields)

\* a run of one of the scrapers: pc is "idle", "goto" (page.goto under way),
\* "delay" (between the two attempts), "evaluate", "write" (the document is
\* made), "writing" (writeFileSync has begun), "close", "done" or "failed"
\* (process.exit(1)); gotos lists the waitUntil of every page.goto the run
\* has called, found is the cache as it was when the run began
ScraperIdle ==
  [pc |-> "idle", step |-> 0, attempt |-> 0, dom |-> <<>>, fields |-> <<>>, schema |-> NoDoc,
   gotos |-> <<>>, found |-> NoFiles]

\* the waitUntil of page.goto: navigateWithRetry of scrape.ts repeats the
\* same call, navigate of scrape-step2.ts goes on to "domcontentloaded"
waitUntil(step, attempt) ==
  IF step = 2 /\ attempt > 1 THEN "domcontentloaded" ELSE "networkidle2"

\* npm run scrape / scrape:step2: the browser is launched and the first
\* page.goto is called
ScraperRun ==
  /\ scraper.pc = "idle"
  /\ \E step \in Steps :
        scraper' = [ScraperIdle EXCEPT !.pc = "goto", !.step = step, !.attempt = 1,
                                       !.gotos = <<waitUntil(step, 1)>>, !.found = cache]
  /\ UNCHANGED <<serverVars, moreVars, san, cache, fetcher, form>>

\* page.goto resolves: the page is there
GotoLoads(doms) ==
  /\ scraper.pc = "goto"
  /\ \E dom \in doms : scraper' = [scraper EXCEPT !.pc = "evaluate", !.dom = dom]
  /\ UNCHANGED <<serverVars, moreVars, san, cache, fetcher, form>>

\* mutant: the run that gives up leaves the default document in the cache
GotoRejectsLeavingDefault ==
  /\ scraper.pc = "goto"
  /\ scraper' = [scraper EXCEPT !.pc = IF scraper.attempt < NavAttempts THEN "delay" ELSE "failed"]
  /\ cache' = IF scraper.attempt < NavAttempts THEN cache
            ELSE [cache EXCEPT ![scraper.step] = WholeOf(StaticSchema(scraper.step))]
  /\ UNCHANGED <<serverVars, moreVars, san, fetcher, form>>

\* page.goto rejects: the first failure leads to the delay, the second one
\* leaves run() and process.exit(1) follows
GotoRejects ==
  /\ scraper.pc = "goto"
  /\ scraper' = [scraper EXCEPT !.pc = IF scraper.attempt < NavAttempts THEN "delay" ELSE "failed"]
  /\ UNCHANGED <<serverVars, moreVars, san, cache, fetcher, form>>

\* the navigation fails on the network
GotoError == GotoRejects

\* the `timeout: 180000` of page.goto expires (a timeout of 0 would switch
\* the timer off)
GotoTimeout ==
  /\ NavTimeout > 0
  /\ GotoRejects

\* delay(3000) is over: the second page.goto is called
DelayElapses ==
  /\ scraper.pc = "delay"
  /\ scraper' = [scraper EXCEPT !.pc = "goto", !.attempt = scraper.attempt + 1,
                                !.gotos = Append(scraper.gotos,
                                                 waitUntil(scraper.step, scraper.attempt + 1))]
  /\ UNCHANGED <<serverVars, moreVars, san, cache, fetcher, form>>

\* page.evaluate resolves and the schema document is made
Evaluate ==
  /\ scraper.pc = "evaluate"
  /\ LET fields == IF scraper.step = 1 THEN evaluate1(scraper.dom) ELSE evaluate2(scraper.dom)
     IN  scraper' = [scraper EXCEPT !.pc = "write", !.fields = fields,
                       !.schema = IF scraper.step = 1 THEN schemaOfStep1(fields)
                                  ELSE schemaOfStep2(fields)]
  /\ UNCHANGED <<serverVars, moreVars, san, cache, fetcher, form>>

\* the length of JSON.stringify(doc, null, 2), counted on what a document
\* keeps here: the title, and for every field the characters of its texts
\* and the 85 characters of the braces, keys and quotes around them
RECURSIVE FieldsLength(_)
FieldsLength(fields) ==
  IF fields = <<>> THEN 0
  ELSE LET f == Head(fields)
       IN  85 + Len(f.id) + Len(f.name) + Len(f.label) + Len(f.placeholder) + Len(f.pattern)
              + FieldsLength(Tail(fields))

TitleLength(title) ==
  CASE title = "Udyam Registration (scraped)" -> 28
    [] title = "Udyam Registration - Step 1 (Aadhaar & OTP)" -> 43
    [] title = "Udyam Registration - Step 2 (PAN Validation)" -> 44
    [] OTHER -> 0

TextLength(doc) == TitleLength(doc.title) + FieldsLength(doc.fields)

\* the file after the text of doc has been written from its beginning: the
\* process opened the file with O_TRUNC, and what another process wrote
\* since then stays in the file behind the text where it is longer
Written(file, doc) ==
  IF file.whole /\ TextLength(file.doc) > TextLength(doc) THEN PartOf(doc) ELSE WholeOf(doc)

\* fs.writeFileSync opens the file, which empties it, and begins to write
WriteBegin ==
  /\ scraper.pc = "write"
  /\ cache' = [cache EXCEPT ![scraper.step] = PartOf(scraper.schema)]
  /\ scraper' = [scraper EXCEPT !.pc = "writing"]
  /\ UNCHANGED <<serverVars, moreVars, san, fetcher, form>>

\* fs.writeFileSync returns: the whole text is in the file
WriteEnd ==
  /\ scraper.pc = "writing"
  /\ cache' = [cache EXCEPT ![scraper.step] = Written(cache[scraper.step], scraper.schema)]
  /\ scraper' = [scraper EXCEPT !.pc = "close"]
  /\ UNCHANGED <<serverVars, moreVars, san, fetcher, form>>

\* browser.close()
BrowserClose ==
  /\ scraper.pc = "close"
  /\ scraper' = [scraper EXCEPT !.pc = "done"]
  /\ UNCHANGED <<serverVars, moreVars, san, cache, fetcher, form>>

\* the process ends
ScraperExit ==
  /\ scraper.pc \in {"done", "failed"}
  /\ scraper' = ScraperIdle
  /\ UNCHANGED <<serverVars, moreVars, san, cache, fetcher, form>>

---------------------------------------------------------------------------
(* server.ts: GET /form-schema/:step and GET /scraped-schema/:step *)

\* Number(req.params.step) for the paths clients ask for
StepParams == {1, 2, 3}

AnswerGet(ep, step, file, resp) ==
  /\ req' = [IdleReq EXCEPT !.pc = "responded", !.ep = ep, !.step = step, !.file = file,
                            !.sent = req.sent + 1]
  /\ out' = resp

\* loadShared() ?? fallbackSchemas(), then the choice by step
FormSchemaResponse(step, shared) ==
  IF step = 1
  THEN [Response(200) EXCEPT !.schema = IF shared THEN step1Schema ELSE fallbackStep1Schema]
  ELSE IF step = 2
  THEN [Response(200) EXCEPT !.schema = IF shared THEN step2Schema ELSE fallbackStep2Schema]
  ELSE [Response(404) EXCEPT !.error = "Unknown step"]

\* shared: whether the import of schema/dist/index.js succeeds
FormSchemaRoute ==
  /\ req.pc = "idle"
  /\ svc.op = "none"
  /\ fetcher.pc = "idle"
  /\ \E step \in StepParams, shared \in BOOLEAN :
        AnswerGet("/form-schema", step, NoFile, FormSchemaResponse(step, shared))
  /\ UNCHANGED <<svc, prisma, dbClientAvailable, db, otherVars>>

\* the file schema/generated/step<step>.json as the handler finds it
FileOf(step) == IF step \in Steps THEN cache[step] ELSE NoFile

\* mutant: the existsSync check left out
ScrapedSchemaResponseNoExists(file) ==
  IF file.whole
  THEN [Response(200) EXCEPT !.schema = file.doc]
  ELSE [Response(500) EXCEPT !.error = "Unexpected end of JSON input"]

\* existsSync, then JSON.parse(readFileSync) inside try/catch
ScrapedSchemaResponse(file) ==
  IF ~file.exists
  THEN [Response(404) EXCEPT !.error = "Scraped schema not found"]
  ELSE IF file.whole
  THEN [Response(200) EXCEPT !.schema = file.doc]
  ELSE [Response(500) EXCEPT !.error = "Unexpected end of JSON input"]

ScrapedSchemaRoute ==
  /\ req.pc = "idle"
  /\ svc.op = "none"
  /\ fetcher.pc = "idle"
  /\ \E step \in StepParams :
        AnswerGet("/scraped-schema", step, FileOf(step), ScrapedSchemaResponse(FileOf(step)))
  /\ UNCHANGED <<svc, prisma, dbClientAvailable, db, otherVars>>

---------------------------------------------------------------------------
(* page.tsx: fetchSchema *)

\* what fetch resolves to: the status and, for r.json(), whether the body is
\* JSON and the document it holds
HttpResponse(status, json, schema) == [status |-> status, json |-> json, schema |-> schema]
NoHttpResponse == HttpResponse(0, FALSE, NoDoc)

\* the backend's answer as the page gets it
FromBackend(resp) == HttpResponse(resp.status, TRUE, resp.schema)

\* answers that do not come from the backend: the error page of a gateway,
\* and a page served with status 200 that is not JSON
BadGateway == HttpResponse(502, FALSE, NoDoc)
NotJson    == HttpResponse(200, FALSE, NoDoc)

\* mutant: every answer counts as a success
OkWhateverStatus(r) == TRUE

\* r.ok
Ok(r) == r.status >= 200 /\ r.status <= 299

Attempt(source, ok) == [source |-> source, ok |-> ok]

\* a call of fetchSchema: pc is "idle", "fetch" (await fetch), "json" (await
\* r.json()) or "settled"; tried lists the sources the call has gone through
FetcherIdle ==
  [pc |-> "idle", step |-> 0, r |-> NoHttpResponse, reached |-> FALSE, tried |-> <<>>,
   settled |-> "", value |-> NoDoc]

\* mutant: no catch block, the failure leaves fetchSchema
FallThroughRethrow(f) ==
  [f EXCEPT !.pc = "settled", !.settled = "rejected",
            !.tried = <<Attempt("scraped-schema", FALSE)>>]

\* the try block is left without a return: return step === 1 ? step1Schema : step2Schema
FallThrough(f) ==
  [f EXCEPT !.pc = "settled", !.settled = "fulfilled", !.value = StaticSchema(f.step),
            !.tried = <<Attempt("scraped-schema", FALSE), Attempt("static", TRUE)>>]

\* fetchSchema(step) is called and fetch sends the request
FetchSchemaCall ==
  /\ fetcher.pc = "idle"
  /\ req.pc = "idle"
  /\ \E step \in Steps : fetcher' = [FetcherIdle EXCEPT !.pc = "fetch", !.step = step]
  /\ UNCHANGED <<serverVars, moreVars, san, cache, scraper, form>>

\* fetch resolves with the answer of the backend or of something in between
FetchResolves ==
  /\ fetcher.pc = "fetch"
  /\ \E r \in {FromBackend(ScrapedSchemaResponse(FileOf(fetcher.step))), BadGateway, NotJson} :
        LET f == [fetcher EXCEPT !.r = r, !.reached = TRUE]
        IN  fetcher' = IF Ok(r) THEN [f EXCEPT !.pc = "json"] ELSE FallThrough(f)
  /\ UNCHANGED <<serverVars, moreVars, san, cache, scraper, form>>

\* fetch rejects: the backend cannot be reached
FetchRejects ==
  /\ fetcher.pc = "fetch"
  /\ fetcher' = FallThrough(fetcher)
  /\ UNCHANGED <<serverVars, moreVars, san, cache, scraper, form>>

\* r.json() settles
JsonSettles ==
  /\ fetcher.pc = "json"
  /\ fetcher' = IF fetcher.r.json
                THEN [fetcher EXCEPT !.pc = "settled", !.settled = "fulfilled",
                                     !.value = fetcher.r.schema,
                                     !.tried = <<Attempt("scraped-schema", TRUE)>>]
                ELSE FallThrough(fetcher)
  /\ UNCHANGED <<serverVars, moreVars, san, cache, scraper, form>>

\* .then(setSchema): the page takes the schema
FetcherReturn ==
  /\ fetcher.pc = "settled"
  /\ fetcher' = FetcherIdle
  /\ UNCHANGED <<serverVars, moreVars, san, cache, scraper, form>>

\* the pages the scraper meets while the backend and the page are running
SmallDoms == {<<>>, <<PanInput>>}

\* a select whose label holds "pan" inside a word and a step-2 keyword
CompanyStateSelect ==
  [id |-> <<"c", "s">>, name |-> <<>>,
   forLabel |-> Label(<<"C", "o", "m", "p", "a", "n", "y", " ", "S", "t", "a", "t", "e">>),
   prevLabel |-> None,
   aria |-> <<>>, placeholder |-> <<>>,
   tag |-> "SELECT", type |-> "select-one", required |-> FALSE, maxLength |-> 0,
   pattern |-> <<>>]

\* the elements of a page that holds more step-2 inputs than the cap keeps
Step2Elements == {PanInput, StateSelect, BlankLabelInput, CompanyStateSelect}

RECURSIVE LongDomsUpTo(_)
LongDomsUpTo(n) ==
  IF n = 0 THEN {<<>>}
  ELSE LET prev == LongDomsUpTo(n - 1)
       IN  prev \cup {Append(d, e) : d \in prev, e \in Step2Elements}

\* pages of up to one input more than the cap
LongDoms == LongDomsUpTo(FieldCap + 1)

---------------------------------------------------------------------------
(* page.tsx: the registration form. values holds what the inputs hold (<<>> *)
(* where a text is undefined or empty), fieldErrors the message under each *)
(* input and error the message of the page, "" where there is none. pc is  *)
(* where validateAndNext stands: "idle", "aadhaar" or "otp" (awaiting the   *)
(* answer to /api/validate/aadhaar or /api/validate/otp); seen is the       *)
(* values the call was made with, as far as it goes on to read them.       *)

\* /^[2-9]/ and /^[2-9][0-9]{11}$/ of onChange
aadhaarStart ==
  [anchS |-> TRUE, atoms |-> <<Atom(Digits2to9, 1)>>, anchE |-> FALSE]
aadhaarTyped ==
  [anchS |-> TRUE, atoms |-> <<Atom(Digits2to9, 1), Atom(Digits, 11)>>, anchE |-> TRUE]
\* const panRegex = /^[A-Z]{5}[0-9]{4}[A-Z]{1}$/ of onChange
panTyped ==
  [anchS |-> TRUE, atoms |-> <<Atom(Upper, 5), Atom(Digits, 4), Atom(Upper, 1)>>, anchE |-> TRUE]

\* the maxLength of the inputs
AadhaarMaxLength == 12
PanMaxLength == 10
OtpMaxLength == 6

TextNames  == {"aadhaarNumber", "entrepreneurName", "otp", "panNumber"}
FieldNames == TextNames \cup {"consent"}

NoValues ==
  [aadhaarNumber |-> <<>>, entrepreneurName |-> <<>>, otp |-> <<>>, panNumber |-> <<>>,
   consent |-> FALSE, showOtpField |-> FALSE, otpVerified |-> FALSE,
   pincode |-> <<>>, state |-> <<>>, city |-> <<>>]

\* lookups: the calls of api.postalpincode.in that have not settled, each with
\* the PIN code it asks for and whether it is the call of the latest edit of
\* the PIN code input; filled: the call of the latest edit has filled in
\* state and city
FormInit ==
  [values |-> NoValues, fieldErrors |-> [n \in FieldNames |-> ""], error |-> "",
   message |-> "", loading |-> FALSE, pc |-> "idle", seen |-> NoValues,
   lookups |-> <<>>, filled |-> FALSE]

\* the message the Aadhaar check of onChange leaves under the input
AadhaarCheck(value, before) ==
  IF Len(value) > 0 /\ Len(value) # 12 THEN "Aadhaar number must be exactly 12 digits"
  ELSE IF Len(value) = 12 /\ ~Test(aadhaarStart, value) THEN "Aadhaar number must start with 2-9"
  ELSE IF Len(value) = 12 /\ Test(aadhaarTyped, value) THEN ""
  ELSE before

\* the message the PAN check of onChange leaves
PanCheck(value, before) ==
  IF Len(value) > 0 /\ Len(value) # 10 THEN "PAN must be exactly 10 characters"
  ELSE IF Len(value) = 10 /\ ~Test(panTyped, value) THEN "Invalid PAN format. Expected: ABCDE1234F"
  ELSE IF Len(value) = 10 /\ Test(panTyped, value) THEN ""
  ELSE before

\* onChange(name, value) for the inputs other than the PIN code
onChangeTo(f, name, value) ==
  LET filled  == IF name = "consent" THEN value ELSE Len(value) > 0
      cleared == IF f.fieldErrors[name] # "" THEN "" ELSE f.fieldErrors[name]
      checked == IF name = "aadhaarNumber" /\ filled THEN AadhaarCheck(value, cleared)
                 ELSE IF name = "panNumber" /\ filled THEN PanCheck(value, cleared)
                 ELSE cleared
  IN  [f EXCEPT !.values[name] = value,
                !.fieldErrors[name] = checked,
                !.error = IF /\ f.error # ""
                             /\ name \in {"aadhaarNumber", "entrepreneurName", "consent"}
                             /\ filled
                          THEN "" ELSE f.error]

\* what can be typed into the inputs
AadhaarTexts ==
  {DigitString(n) : n \in {0, AadhaarMaxLength - 1, AadhaarMaxLength}}
  \cup {Replace(DigitString(AadhaarMaxLength), 1, "0"),
        Replace(DigitString(AadhaarMaxLength), AadhaarMaxLength, "a")}
PanTexts ==
  {PanString(n) : n \in {0, PanMaxLength - 1, PanMaxLength}}
  \cup {Replace(PanString(PanMaxLength), 6, "A"), LowerPanString(PanMaxLength)}
OtpTexts ==
  {DigitString(n) : n \in {0, OtpMaxLength - 1, OtpMaxLength}}
  \cup {Replace(DigitString(OtpMaxLength), OtpMaxLength, "a")}
NameTexts == {<<>>, <<"J", "o", "h", "n">>}

\* the inputs on the page: the OTP input is rendered once showOtpField is
\* set, the PAN section once otpVerified is set
Typed(name) ==
  CASE name = "aadhaarNumber"    -> AadhaarTexts
    [] name = "entrepreneurName" -> NameTexts
    [] name = "consent"          -> BOOLEAN
    [] name = "otp"              -> IF form.values.showOtpField THEN OtpTexts ELSE {}
    [] name = "panNumber"        -> IF form.values.otpVerified THEN PanTexts ELSE {}

onChange ==
  /\ \E name \in FieldNames : \E value \in Typed(name) : form' = onChangeTo(form, name, value)
  /\ UNCHANGED <<serverVars, moreVars, san, cache, scraper, fetcher>>

\* the answer to a call of /api/validate/*: the routes under app/api are
\* taken to relay the answer of the backend; relayed is FALSE where the
\* answer is an error page that is not JSON
Reply(resp) == [status |-> resp.status, relayed |-> TRUE, error |-> resp.error]
ErrorPage   == [status |-> 502, relayed |-> FALSE, error |-> ""]

AadhaarReply(aadhaarNumber) ==
  Reply(ValidateResponse(Str(aadhaarNumber), validateAadhaar(Str(aadhaarNumber)),
                         "Aadhaar number is required", "Aadhaar format is valid"))
OtpReply(otp) ==
  Reply(ValidateResponse(Str(otp), validateOTP(Str(otp)), "OTP is required", "OTP format is valid"))

\* validateAndNext returns: finally { setLoading(false) }
Returned(f) == [f EXCEPT !.loading = FALSE, !.pc = "idle", !.seen = NoValues]

NetworkError == "Network error during validation. Please try again."

\* if (!response.ok) { const errorData = await response.json(); setError(...); return }
Refused(f, r, fallback) ==
  Returned([f EXCEPT !.error = IF ~r.relayed THEN NetworkError
                               ELSE IF r.error # "" THEN r.error ELSE fallback])

\* a click on "Validate & Generate OTP" or on "Validate"
validateAndNext ==
  /\ ~form.loading
  /\ LET v == form.values IN
       form' = IF v.aadhaarNumber = <<>> \/ v.entrepreneurName = <<>> \/ ~v.consent
               THEN [form EXCEPT !.error =
                       "Please fill in all required fields and check the consent checkbox"]
               ELSE [form EXCEPT !.error = "", !.loading = TRUE, !.pc = "aadhaar",
                                 !.seen = [NoValues EXCEPT !.aadhaarNumber = v.aadhaarNumber,
                                                           !.otp = v.otp]]
  /\ UNCHANGED <<serverVars, moreVars, san, cache, scraper, fetcher>>

\* the answer to /api/validate/aadhaar arrives
AadhaarAnswered ==
  /\ form.pc = "aadhaar"
  /\ \E r \in {AadhaarReply(form.seen.aadhaarNumber), ErrorPage} :
        form' = IF ~Ok(r) THEN Refused(form, r, "Invalid Aadhaar format")
                ELSE IF form.seen.otp # <<>>
                     THEN IF Len(form.seen.otp) # 6
                          THEN Returned([form EXCEPT !.error = "OTP must be exactly 6 digits"])
                          ELSE [form EXCEPT !.pc = "otp"]
                     ELSE Returned([form EXCEPT
                            !.values.showOtpField = TRUE,
                            !.message = "OTP has been sent to your registered mobile number. Please enter the 6-digit OTP."])
  /\ UNCHANGED <<serverVars, moreVars, san, cache, scraper, fetcher>>

\* the answer to /api/validate/otp arrives
OtpAnswered ==
  /\ form.pc = "otp"
  /\ \E r \in {OtpReply(form.seen.otp), ErrorPage} :
        form' = IF ~Ok(r) THEN Refused(form, r, "Invalid OTP format")
                ELSE Returned([form EXCEPT
                       !.values.otpVerified = TRUE,
                       !.message = "Your Aadhaar has been successfully verified. You can continue Pan Verification process."])
  /\ UNCHANGED <<serverVars, moreVars, san, cache, scraper, fetcher>>

\* fetch rejects: catch { setError("Network error during validation...") }
ValidationUnreachable ==
  /\ form.pc \in {"aadhaar", "otp"}
  /\ form' = Returned([form EXCEPT !.error = NetworkError])
  /\ UNCHANGED <<serverVars, moreVars, san, cache, scraper, fetcher>>

---------------------------------------------------------------------------
(* page.tsx: the PIN code input of the PAN section and the postal lookup   *)
(* that fills in state and city                                            *)

\* the form once Aadhaar number and OTP have been verified
VerifiedForm ==
  [FormInit EXCEPT
     !.values = [NoValues EXCEPT !.aadhaarNumber = DigitString(AadhaarMaxLength),
                                 !.entrepreneurName = <<"J", "o", "h", "n">>,
                                 !.consent = TRUE, !.showOtpField = TRUE,
                                 !.otp = DigitString(OtpMaxLength), !.otpVerified = TRUE],
     !.message = "Your Aadhaar has been successfully verified. You can continue Pan Verification process."]

NewDelhi  == <<"1", "1", "0", "0", "0", "1">>
Bengaluru == <<"5", "6", "0", "0", "0", "1">>
Unknown   == <<"0", "0", "0", "0", "0", "0">>

\* what can be typed into the PIN code input
PinTexts == {<<>>, SubSeq(NewDelhi, 1, 5), NewDelhi, Bengaluru, Unknown}

NoOffice == [has |-> FALSE, State |-> <<>>, District |-> <<>>]

\* data?.[0]?.PostOffice?.[0] of the answer of api.postalpincode.in
PostOffice(pin) ==
  CASE pin = NewDelhi  -> [has |-> TRUE, State |-> <<"D", "e", "l", "h", "i">>,
                           District |-> <<"C", "e", "n", "t", "r", "a", "l">>]
    [] pin = Bengaluru -> [has |-> TRUE, State |-> <<"K", "a", "r", "n", "a", "t", "a", "k", "a">>,
                           District |-> <<"B", "e", "n", "g", "a", "l", "u", "r", "u">>]
    [] OTHER           -> NoOffice

\* the calls under way are no longer the call of the latest edit
Earlier(lookups) == [i \in 1..Len(lookups) |-> [lookups[i] EXCEPT !.latest = FALSE]]

RemoveAt(s, i) == SubSeq(s, 1, i - 1) \o SubSeq(s, i + 1, Len(s))

\* onChange("pincode", value): the value is stored and, where it has six
\* characters, the lookup is called
onChangePincode ==
  /\ form.values.otpVerified
  /\ \E value \in PinTexts :
        LET looked == Len(value) = 6 IN
          /\ looked => Len(form.lookups) < MaxLookups
          /\ form' = [form EXCEPT
                        !.values.pincode = value,
                        !.lookups = IF looked
                                    THEN Append(Earlier(form.lookups),
                                                [pin |-> value, latest |-> TRUE])
                                    ELSE Earlier(form.lookups),
                        !.filled = FALSE]
  /\ UNCHANGED <<serverVars, moreVars, san, cache, scraper, fetcher>>

\* the answer of a lookup arrives: .then((data) => { ... if (office) setValues(...) })
LookupAnswered ==
  /\ \E i \in 1..Len(form.lookups) :
        LET office == PostOffice(form.lookups[i].pin) IN
          form' = IF office.has
                  THEN [form EXCEPT
                          !.values.state = Or(office.State, form.values.state),
                          !.values.city = Or(office.District, form.values.city),
                          !.filled = form.filled \/ form.lookups[i].latest,
                          !.lookups = RemoveAt(form.lookups, i)]
                  ELSE [form EXCEPT !.lookups = RemoveAt(form.lookups, i)]
  /\ UNCHANGED <<serverVars, moreVars, san, cache, scraper, fetcher>>

\* fetch or r.json() rejects: .catch(() => {})
LookupFailed ==
  /\ \E i \in 1..Len(form.lookups) :
        form' = [form EXCEPT !.lookups = RemoveAt(form.lookups, i)]
  /\ UNCHANGED <<serverVars, moreVars, san, cache, scraper, fetcher>>

---------------------------------------------------------------------------
(* A second run of a scraper, started while the first one is under way.    *)
(* Its steps are those of the first run; page.evaluate and the making of  *)
(* the document are taken together with the page.goto that resolves.       *)

\* after: the run wrote its text when the first run had written its own
\* text to the same file
RivalIdle ==
  [pc |-> "idle", step |-> 0, attempt |-> 0, schema |-> NoDoc, after |-> FALSE]

RivalRun ==
  /\ rival.pc = "idle"
  /\ scraper.pc # "idle"
  /\ \E step \in Steps : rival' = [RivalIdle EXCEPT !.pc = "goto", !.step = step, !.attempt = 1]
  /\ UNCHANGED <<serverVars, san, cache, scraper, fetcher, form, submits, enhanced>>

RivalGotoLoads(doms) ==
  /\ rival.pc = "goto"
  /\ \E dom \in doms :
        rival' = [rival EXCEPT !.pc = "write",
                               !.schema = IF rival.step = 1 THEN schemaOfStep1(evaluate1(dom))
                                          ELSE schemaOfStep2(evaluate2(dom))]
  /\ UNCHANGED <<serverVars, san, cache, scraper, fetcher, form, submits, enhanced>>

RivalGotoRejects ==
  /\ rival.pc = "goto"
  /\ rival' = [rival EXCEPT !.pc = IF rival.attempt < NavAttempts THEN "delay" ELSE "failed"]
  /\ UNCHANGED <<serverVars, san, cache, scraper, fetcher, form, submits, enhanced>>

RivalDelayElapses ==
  /\ rival.pc = "delay"
  /\ rival' = [rival EXCEPT !.pc = "goto", !.attempt = rival.attempt + 1]
  /\ UNCHANGED <<serverVars, san, cache, scraper, fetcher, form, submits, enhanced>>

RivalWriteBegin ==
  /\ rival.pc = "write"
  /\ cache' = [cache EXCEPT ![rival.step] = PartOf(rival.schema)]
  /\ rival' = [rival EXCEPT !.pc = "writing"]
  /\ UNCHANGED <<serverVars, san, scraper, fetcher, form, submits, enhanced>>

RivalWriteEnd ==
  /\ rival.pc = "writing"
  /\ cache' = [cache EXCEPT ![rival.step] = Written(cache[rival.step], rival.schema)]
  /\ rival' = [rival EXCEPT !.pc = "close",
                            !.after = scraper.step = rival.step /\ scraper.pc \in {"close", "done"}]
  /\ UNCHANGED <<serverVars, san, scraper, fetcher, form, submits, enhanced>>

RivalBrowserClose ==
  /\ rival.pc = "close"
  /\ rival' = [rival EXCEPT !.pc = "done"]
  /\ UNCHANGED <<serverVars, san, cache, scraper, fetcher, form, submits, enhanced>>

---------------------------------------------------------------------------
(* server.ts: POST /submit handled for several requests at the same time.  *)
(* Node runs one handler until its next await; the handlers of other       *)
(* requests run between the await of the dynamic import and its            *)
(* continuation. prisma is the module variable of server.ts: 0 for null,   *)
(* otherwise the number of the PrismaClient made last, clients being       *)
(* numbered as they are constructed.                                       *)

Requests == 1..MaxRequests

IdleSubmit == [pc |-> "idle", body |-> Obj(NoKeys), client |-> 0, resp |-> NoResponse]

NoSubmits == [r \in Requests |-> IdleSubmit]

\* the bodies of the requests: the valid record and a body that fails safeParse
SubmitBodies == {Obj(ValidRecord), ArrayBody}

\* the request arrives: safeParse, then getPrisma up to its first await
\* (`if (prisma) return prisma`, else the import is begun)
SubmitArrives(r) ==
  /\ submits[r].pc = "idle"
  /\ Len(db) < MaxStored
  /\ \E body \in SubmitBodies :
        LET issues == SubmitParse(body) IN
          submits' = [submits EXCEPT ![r] =
            IF issues # <<>>
            THEN [IdleSubmit EXCEPT !.pc = "responded", !.body = body,
                                    !.resp = ValidationFailed(issues)]
            ELSE [IdleSubmit EXCEPT !.pc = IF prisma # 0 THEN "creating" ELSE "importing",
                                    !.body = body, !.client = prisma]]
  /\ UNCHANGED <<serverVars, san, cache, scraper, fetcher, form, rival, enhanced>>

\* getPrisma after `await import("@prisma/client")`: the client is
\* constructed and assigned, or the import has failed and null is returned
SubmitImported(r) ==
  /\ submits[r].pc = "importing"
  /\ IF dbClientAvailable
     THEN /\ prisma' = prisma + 1
          /\ submits' = [submits EXCEPT ![r].pc = "creating", ![r].client = prisma + 1]
     ELSE /\ prisma' = prisma
          /\ submits' = [submits EXCEPT ![r].pc = "responded",
                                        ![r].resp = NoClient(Strip(submits[r].body.f))]
  /\ UNCHANGED <<svc, dbClientAvailable, db, req, out,
                 san, cache, scraper, fetcher, form, rival, enhanced>>

\* client.udyamSubmission.create settles
SubmitCreated(r, ok) ==
  LET data == Strip(submits[r].body.f)
      id   == Len(db) + 1
  IN
  /\ submits[r].pc = "creating"
  /\ IF ok
     THEN /\ db' = Append(db, [id |-> id, data |-> data, status |-> "pending"])
          /\ submits' = [submits EXCEPT ![r].pc = "responded", ![r].resp = Stored(id)]
     ELSE /\ db' = db
          /\ submits' = [submits EXCEPT ![r].pc = "responded", ![r].resp = CreateFailed(data)]
  /\ UNCHANGED <<svc, prisma, dbClientAvailable, req, out,
                 san, cache, scraper, fetcher, form, rival, enhanced>>

\* the client takes the response and may send its next request
SubmitDelivered(r) ==
  /\ submits[r].pc = "responded"
  /\ submits' = [submits EXCEPT ![r] = IdleSubmit]
  /\ UNCHANGED <<serverVars, san, cache, scraper, fetcher, form, rival, enhanced>>

---------------------------------------------------------------------------
(* The enhanced scraper (src/unnamed/part_002). A page element is a record *)
(* of its attributes, the label element that points at its id (forLabel), *)
(* the textContent of its preceding siblings, the nearest one first, and   *)
(* its ancestors below document.body, the nearest one first, each with its *)
(* textContent and the number of its children.                             *)

Node(id, name, forLabel, siblings, ancestors, placeholder, type, pattern) ==
  [id |-> id, name |-> name, forLabel |-> forLabel, siblings |-> siblings,
   ancestors |-> ancestors, placeholder |-> placeholder, tag |-> "INPUT", type |-> type,
   required |-> FALSE, maxLength |-> 0, minLength |-> 0, pattern |-> pattern]

Ancestor(text, children) == [text |-> text, children |-> children]

\* the first text of a sequence that trim leaves something of, trimmed
RECURSIVE FirstText(_)
FirstText(texts) ==
  IF texts = <<>> THEN <<>>
  ELSE IF trim(Head(texts)) # <<>> THEN trim(Head(texts))
  ELSE FirstText(Tail(texts))

\* the text of the first ancestor that has text and exactly one child
RECURSIVE ParentText(_)
ParentText(ancestors) ==
  IF ancestors = <<>> THEN <<>>
  ELSE IF trim(Head(ancestors).text) # <<>> /\ Head(ancestors).children = 1
       THEN trim(Head(ancestors).text)
  ELSE ParentText(Tail(ancestors))

getLabelText(element) ==
  IF element.id # <<>> /\ element.forLabel.has THEN trim(element.forLabel.text)
  ELSE IF FirstText(element.siblings) # <<>> THEN FirstText(element.siblings)
  ELSE IF ParentText(element.ancestors) # <<>> THEN ParentText(element.ancestors)
  ELSE Or(element.placeholder, Or(element.name, element.id))

\* the patterns and help texts of the heuristics
EmailPattern   == <<"^", "[", "a", "-", "z", "A", "-", "Z", "0", "-", "9", ".", "_", "%", "+", "-", "]", "+", "@", "[", "a", "-", "z", "A", "-", "Z", "0", "-", "9", ".", "-", "]", "+", "\\", ".", "[", "a", "-", "z", "A", "-", "Z", "]", "{", "2", ",", "}", "$">>
AadhaarPattern == <<"^", "[", "2", "-", "9", "]", "[", "0", "-", "9", "]", "{", "1", "1", "}", "$">>
MobilePattern  == <<"^", "[", "6", "-", "9", "]", "[", "0", "-", "9", "]", "{", "9", "}", "$">>
PanPattern     == <<"^", "[", "A", "-", "Z", "]", "{", "5", "}", "[", "0", "-", "9", "]", "{", "4", "}", "[", "A", "-", "Z", "]", "{", "1", "}", "$">>
PinPattern     == <<"^", "[", "0", "-", "9", "]", "{", "6", "}", "$">>

Validation(required, maxLength, minLength, pattern, type, helpText) ==
  [required |-> required, maxLength |-> maxLength, minLength |-> minLength,
   pattern |-> pattern, type |-> type, helpText |-> helpText]

\* what the heuristics make of a pattern and help text found so far
Heuristics(element, found) ==
  LET byType ==
        IF element.type = "email" THEN [found EXCEPT !.pattern = EmailPattern]
        ELSE IF element.type = "tel"
        THEN IF includes(element.placeholder, <<"A", "a", "d", "h", "a", "a", "r">>)
             THEN [pattern |-> AadhaarPattern,
                   helpText |-> "Aadhaar number must be 12 digits starting with 2-9"]
             ELSE IF includes(element.placeholder, <<"M", "o", "b", "i", "l", "e">>)
             THEN [pattern |-> MobilePattern,
                   helpText |-> "Mobile number must be 10 digits starting with 6-9"]
             ELSE found
        ELSE found
      byPan ==
        IF \/ includes(element.placeholder, <<"P", "A", "N">>)
           \/ includes(LowerCase(element.name), <<"p", "a", "n">>)
        THEN [pattern |-> PanPattern, helpText |-> "PAN must be in format: ABCDE1234F"]
        ELSE byType
  IN  IF \/ includes(element.placeholder, <<"P", "I", "N">>)
         \/ includes(LowerCase(element.name), <<"p", "i", "n", "c", "o", "d", "e">>)
      THEN [pattern |-> PinPattern, helpText |-> "PIN code must be 6 digits"]
      ELSE byPan

extractValidationPatterns(element) ==
  LET found == Heuristics(element, [pattern |-> element.pattern, helpText |-> ""])
  IN  Validation(element.required,
                 IF element.maxLength > 0 THEN element.maxLength ELSE 0,
                 IF element.minLength > 0 THEN element.minLength ELSE 0,
                 found.pattern,
                 IF element.type \in {"email", "tel"} THEN element.type ELSE "",
                 found.helpText)

\* `field_${index}`
FieldIndex(index) == <<"f", "i", "e", "l", "d", "_">> \o <<CASE index = 0 -> "0" [] index = 1 -> "1" [] OTHER -> "2">>

\* label && label.length > 2 && !label.includes("__VIEWSTATE")
Meaningful(label) == Len(label) > 2 /\ ~includes(label, <<"_", "_", "V", "I", "E", "W", "S", "T", "A", "T", "E">>)

\* the field pushed for the element at `index` of the page; of is the index
EnhancedField(element, index) ==
  [id |-> Or(element.id, FieldIndex(index)),
   name |-> Or(element.name, Or(element.id, FieldIndex(index))),
   label |-> getLabelText(element),
   type |-> TypeOf(element),
   placeholder |-> element.placeholder,
   validation |-> extractValidationPatterns(element),
   of |-> index]

\* inputs.forEach: the fields of the elements from position i on
RECURSIVE FieldsFrom(_, _)
FieldsFrom(dom, i) ==
  IF i > Len(dom) THEN <<>>
  ELSE IF dom[i].type \in {"hidden", "button", "submit"} \/ ~Meaningful(getLabelText(dom[i]))
       THEN FieldsFrom(dom, i + 1)
       ELSE <<EnhancedField(dom[i], i - 1)>> \o FieldsFrom(dom, i + 1)

\* the labels getLabelText gave for the elements it was called for (of the
\* other elements: <<>>)
LabelsOf(dom) ==
  [i \in 1..Len(dom) |-> IF dom[i].type \in {"hidden", "button", "submit"} THEN <<>>
                         ELSE getLabelText(dom[i])]

enhancedSchema(fields) ==
  [title |-> "Udyam Registration - Enhanced (scraped)", step |-> 1, fields |-> fields]

\* the elements of the pages of the enhanced scraper: every way of naming an
\* input, and every input the heuristics look at
NamedElements ==
  { Node(id, name, forLabel, siblings, ancestors, placeholder, "text", <<>>) :
      id \in {<<>>, <<"t", "x", "t", "N", "a", "m", "e">>},
      name \in {<<>>, <<"o", "w", "n", "e", "r">>},
      forLabel \in {None, Label(<<>>), Label(<<" ", "N", "a", "m", "e", " ">>)},
      siblings \in {<<>>, <<<<" ">>>>, <<<<>>, <<"F", "a", "r">>>>, <<<<"N", "e", "a", "r">>, <<"F", "a", "r">>>>},
      ancestors \in {<<>>, <<Ancestor(<<"C", "e", "l", "l">>, 1)>>, <<Ancestor(<<"R", "o", "w">>, 2), Ancestor(<<"F", "o", "r", "m">>, 1)>>},
      placeholder \in {<<>>, <<"Y", "o", "u", "r", " ", "n", "a", "m", "e">>} }

\* a preceding sibling makes the parent an element of two children or more
WellFormed(el) ==
  el.siblings # <<>> => (el.ancestors # <<>> /\ Head(el.ancestors).children > 1)

PatternedElements ==
  { Node(<<>>, name, None, <<>>, <<>>, placeholder, type, pattern) :
      name \in {<<"o", "w", "n", "e", "r">>, <<"t", "x", "t", "P", "a", "n", "N", "o">>, <<"P", "i", "n", "c", "o", "d", "e">>},
      placeholder \in {<<"Y", "o", "u", "r", " ", "n", "a", "m", "e">>, <<"Y", "o", "u", "r", " ", "A", "a", "d", "h", "a", "a", "r", " ", "N", "o">>, <<"M", "o", "b", "i", "l", "e", " ", "N", "o">>, <<"E", "N", "T", "E", "R", " ", "P", "A", "N">>, <<"P", "I", "N", " ", "c", "o", "d", "e">>},
      type \in {"text", "tel", "email", "hidden"},
      pattern \in {<<>>, <<"[", "0", "-", "9", "]", "+">>} }

EnhancedElements == {el \in NamedElements : WellFormed(el)} \cup PatternedElements

EnhancedDoms ==
  {<<>>} \cup {<<el>> : el \in EnhancedElements}
         \cup {<<a, b>> : a \in {Node(<<>>, <<>>, None, <<>>, <<>>, <<>>, "submit", <<>>)},
                          b \in PatternedElements}

\* a run: pc is "idle", "goto", "delay" (delay(5000) and the screenshot),
\* "evaluate", "write", "writing", "close" or "done"; labels is what
\* getLabelText returned for each element; file is enhanced-step1.json
EnhancedIdle ==
  [pc |-> "idle", dom |-> <<>>, labels |-> <<>>, fields |-> <<>>, caught |-> FALSE,
   file |-> NoFile]

EnhancedRun ==
  /\ enhanced.pc = "idle"
  /\ enhanced' = [EnhancedIdle EXCEPT !.pc = "goto", !.file = enhanced.file]
  /\ UNCHANGED <<serverVars, san, cache, scraper, fetcher, form, rival, submits>>

EnhancedGotoLoads ==
  /\ enhanced.pc = "goto"
  /\ \E dom \in EnhancedDoms : enhanced' = [enhanced EXCEPT !.pc = "delay", !.dom = dom]
  /\ UNCHANGED <<serverVars, san, cache, scraper, fetcher, form, rival, submits>>

\* page.goto or page.screenshot rejects: catch (error), then finally
EnhancedCatch ==
  /\ enhanced.pc \in {"goto", "delay"}
  /\ enhanced' = [enhanced EXCEPT !.pc = "close", !.caught = TRUE]
  /\ UNCHANGED <<serverVars, san, cache, scraper, fetcher, form, rival, submits>>

\* delay(5000) is over and the screenshot is taken
EnhancedDelayElapses ==
  /\ enhanced.pc = "delay"
  /\ enhanced' = [enhanced EXCEPT !.pc = "evaluate"]
  /\ UNCHANGED <<serverVars, san, cache, scraper, fetcher, form, rival, submits>>

EnhancedEvaluate ==
  /\ enhanced.pc = "evaluate"
  /\ enhanced' = [enhanced EXCEPT !.pc = "write", !.labels = LabelsOf(enhanced.dom),
                                  !.fields = FieldsFrom(enhanced.dom, 1)]
  /\ UNCHANGED <<serverVars, san, cache, scraper, fetcher, form, rival, submits>>

EnhancedWriteBegin ==
  /\ enhanced.pc = "write"
  /\ enhanced' = [enhanced EXCEPT !.pc = "writing",
                                  !.file = PartOf(enhancedSchema(enhanced.fields))]
  /\ UNCHANGED <<serverVars, san, cache, scraper, fetcher, form, rival, submits>>

EnhancedWriteEnd ==
  /\ enhanced.pc = "writing"
  /\ enhanced' = [enhanced EXCEPT !.pc = "close",
                                  !.file = WholeOf(enhancedSchema(enhanced.fields))]
  /\ UNCHANGED <<serverVars, san, cache, scraper, fetcher, form, rival, submits>>

EnhancedClose ==
  /\ enhanced.pc = "close"
  /\ enhanced' = [enhanced EXCEPT !.pc = "done"]
  /\ UNCHANGED <<serverVars, san, cache, scraper, fetcher, form, rival, submits>>

---------------------------------------------------------------------------
(* Specifications *)

\* the backend after start-up, nothing else under way
InitIdle ==
  /\ svc = SvcIdle
  /\ prisma = 0
  /\ dbClientAvailable \in BOOLEAN
  /\ db = <<>>
  /\ req = IdleReq
  /\ out = NoResponse
  /\ san = SanIdle
  /\ scraper = ScraperIdle
  /\ fetcher = FetcherIdle
  /\ form = FormInit
  /\ rival = RivalIdle
  /\ submits = NoSubmits
  /\ enhanced = EnhancedIdle

\* schema/generated of a fresh checkout
Init ==
  /\ InitIdle
  /\ cache = NoFiles

\* what earlier runs of the scrapers may have left in schema/generated
DiskStates ==
  { NoFiles,
    [NoFiles EXCEPT ![1] = WholeOf(schemaOfStep1(evaluate1(<<AriaInput>>)))],
    [NoFiles EXCEPT ![2] = PartOf(createFallback)] }

\* a scraper is started on a machine without the database client
InitScraper ==
  /\ InitIdle
  /\ ~dbClientAvailable
  /\ cache \in DiskStates

Next ==
  \/ CallValidateAadhaar
  \/ CallValidatePAN
  \/ CallValidateOTP
  \/ CallValidatePincode
  \/ CallValidateSubmission
  \/ SvcReturn
  \/ ValidatePanRoute
  \/ ValidateAadhaarRoute
  \/ ValidateOtpRoute
  \/ ValidatePincodeRoute
  \/ SubmitReceive
  \/ getPrisma
  \/ \E ok \in BOOLEAN : SubmitCreate(ok)
  \/ Deliver

Spec == Init /\ [][Next]_vars

\* calls of sanitizeInput
NextSanitize ==
  \/ CallSanitizeInput
  \/ SanReturn

SpecSanitize == Init /\ [][NextSanitize]_vars

\* one run of one of the two scrapers
NextScraper ==
  \/ ScraperRun
  \/ GotoLoads(DomInputs)
  \/ GotoError
  \/ GotoTimeout
  \/ DelayElapses
  \/ Evaluate
  \/ WriteBegin
  \/ WriteEnd
  \/ BrowserClose

SpecScraper == InitScraper /\ [][NextScraper]_vars

\* the backend serving the schema routes and the page fetching its schema,
\* while the scrapers are run now and then
NextSchema ==
  \/ ScraperRun
  \/ GotoLoads(SmallDoms)
  \/ GotoError
  \/ GotoTimeout
  \/ DelayElapses
  \/ Evaluate
  \/ WriteBegin
  \/ WriteEnd
  \/ BrowserClose
  \/ ScraperExit
  \/ FormSchemaRoute
  \/ ScrapedSchemaRoute
  \/ Deliver
  \/ FetchSchemaCall
  \/ FetchResolves
  \/ FetchRejects
  \/ JsonSettles
  \/ FetcherReturn

SpecSchema == Init /\ [][NextSchema]_vars

\* the backend starts with what the scrapers left in schema/generated
InitRoutes ==
  /\ InitIdle
  /\ cache \in DiskStates

\* the routes of the backend
NextRoutes ==
  \/ ValidatePanRoute
  \/ ValidateAadhaarRoute
  \/ ValidateOtpRoute
  \/ ValidatePincodeRoute
  \/ SubmitReceiveFrom(NameBodies)
  \/ getPrisma
  \/ \E ok \in BOOLEAN : SubmitCreate(ok)
  \/ FormSchemaRoute
  \/ ScrapedSchemaRoute
  \/ Deliver

SpecRoutes == InitRoutes /\ [][NextRoutes]_vars

\* the registration form in the browser
NextForm ==
  \/ onChange
  \/ validateAndNext
  \/ AadhaarAnswered
  \/ OtpAnswered
  \/ ValidationUnreachable

InitForm == InitIdle /\ ~dbClientAvailable /\ cache = NoFiles

SpecForm == InitForm /\ [][NextForm]_vars

\* nothing runs and schema/generated is empty
InitCache == InitIdle /\ ~dbClientAvailable /\ cache = NoFiles

\* a run of the enhanced scraper
NextEnhanced ==
  \/ EnhancedRun
  \/ EnhancedGotoLoads
  \/ EnhancedCatch
  \/ EnhancedDelayElapses
  \/ EnhancedEvaluate
  \/ EnhancedWriteBegin
  \/ EnhancedWriteEnd
  \/ EnhancedClose

SpecEnhanced == InitCache /\ [][NextEnhanced]_vars

\* two runs of the scrapers and the backend: the runs begin on an empty
\* schema/generated and are not repeated
NextCache ==
  \/ ScraperRun
  \/ GotoLoads(SmallDoms)
  \/ GotoError
  \/ GotoTimeout
  \/ DelayElapses
  \/ Evaluate
  \/ WriteBegin
  \/ WriteEnd
  \/ BrowserClose
  \/ RivalRun
  \/ RivalGotoLoads(SmallDoms)
  \/ RivalGotoRejects
  \/ RivalDelayElapses
  \/ RivalWriteBegin
  \/ RivalWriteEnd
  \/ RivalBrowserClose
  \/ ScrapedSchemaRoute
  \/ Deliver

SpecCache == InitCache /\ [][NextCache]_vars

\* a run of a scraper on a page with many inputs
NextStep2 ==
  \/ ScraperRun
  \/ GotoLoads(LongDoms)
  \/ Evaluate
  \/ WriteBegin
  \/ WriteEnd
  \/ BrowserClose

SpecStep2 == InitCache /\ [][NextStep2]_vars

\* the backend handling /submit requests of several clients
NextSubmits ==
  \/ \E r \in Requests : SubmitArrives(r)
  \/ \E r \in Requests : SubmitImported(r)
  \/ \E r \in Requests, ok \in BOOLEAN : SubmitCreated(r, ok)
  \/ \E r \in Requests : SubmitDelivered(r)

SpecSubmits == Init /\ [][NextSubmits]_vars

\* the PAN section of the form is shown and nothing else runs
InitLookup ==
  /\ svc = SvcIdle /\ prisma = 0 /\ dbClientAvailable = FALSE /\ db = <<>>
  /\ req = IdleReq /\ out = NoResponse /\ san = SanIdle /\ cache = NoFiles
  /\ scraper = ScraperIdle /\ fetcher = FetcherIdle /\ rival = RivalIdle
  /\ submits = NoSubmits /\ enhanced = EnhancedIdle
  /\ form = VerifiedForm

\* the PIN code is edited and the lookups settle
NextLookup ==
  \/ onChangePincode
  \/ LookupAnswered
  \/ LookupFailed

SpecLookup == InitLookup /\ [][NextLookup]_vars

---------------------------------------------------------------------------
(* The rules of the specification, stated on the characters of a value *)

AllIn(s, lo, hi, cls) == \A i \in lo..hi : s[i] \in cls

IsAadhaarText(s) == Len(s) = 12 /\ AllIn(s, 1, 12, Digits) /\ s[1] \notin {"0", "1"}
IsPanText(s) ==
  Len(s) = 10 /\ AllIn(s, 1, 5, Upper) /\ AllIn(s, 6, 9, Digits) /\ s[10] \in Upper
IsSixDigits(s) == Len(s) = 6 /\ AllIn(s, 1, 6, Digits)

NonEmptyString(x) == IsStr(x) /\ Len(x.v) >= 1

\* the rule of the specification for the value x of field k
MeetsRule(k, x) ==
  CASE k = "aadhaarNumber" -> IsStr(x) /\ IsAadhaarText(x.v)
    [] k = "panNumber"     -> IsStr(x) /\ IsPanText(x.v)
    [] k \in {"otp", "pincode"} -> IsStr(x) /\ IsSixDigits(x.v)
    [] k \in {"consent", "otpVerified", "panConsent"} -> x.t = "boolean" /\ x.v # <<>>
    [] OTHER               -> NonEmptyString(x)

\* the fields C1 lists (every field but otpVerified)
C1Fields == FieldSet \ {"otpVerified"}

IsRecord(body) == body.t = "object"

\* the subsequence of Fields whose value in f breaks its rule
RECURSIVE Violating(_, _)
Violating(ks, f) ==
  IF ks = <<>> THEN <<>>
  ELSE (IF MeetsRule(ks[1], f[ks[1]]) THEN <<>> ELSE <<ks[1]>>) \o Violating(Tail(ks), f)

Paths(details) == [i \in 1..Len(details) |-> details[i].path]
AsPaths(ks)    == [i \in 1..Len(ks) |-> <<ks[i]>>]

Submitted == req.ep = "/submit" /\ req.pc = "responded"

---------------------------------------------------------------------------
(* C1 *)

---------------------------------------------------------------------------
(* C2, C3, C4 *)

C3_PanExact ==
  svc.op = "validatePAN" => (svc.out.valid <=> IsPanText(svc.arg.v))

C3_Witness ==
  /\ svc.op = "validatePAN" /\ ~svc.out.valid
  /\ svc.arg.v = Swap(PanString(10), 5, 6)

\* C4: validateOTP and validatePincode each answer valid=true for exactly the
\* strings of 6 decimal digits.
C4_SixDigitsExact ==
  svc.op \in {"validateOTP", "validatePincode"}
     => (svc.out.valid <=> IsSixDigits(svc.arg.v))

C4_Witness ==
  /\ svc.op = "validatePincode" /\ ~svc.out.valid
  /\ svc.arg.v = Replace(DigitString(6), 6, "\n")

---------------------------------------------------------------------------
(* C5, C6 *)

ConsentFlags == {"consent", "panConsent"}
ConsentMessage(k) == IF k = "consent" THEN "Consent is required" ELSE "PAN consent is required"

\* C5: a record whose consent or panConsent is absent, false or not a boolean
\* is rejected by validateSubmission with an error entry on that flag, whatever
\* the other fields hold; for a flag that is false the entry carries the
\* consent-required message.
C5_ConsentRequired ==
  (svc.op = "validateSubmission" /\ IsRecord(svc.body)) =>
     \A k \in ConsentFlags :
        ~IsTrue(svc.body.f[k]) =>
           /\ ~svc.out.valid
           /\ \E i \in 1..Len(svc.out.details) :
                 /\ svc.out.details[i].path = <<k>>
                 /\ svc.body.f[k] = Bool(FALSE)
                       => svc.out.details[i].message = ConsentMessage(k)

C5_Witness ==
  /\ svc.op = "validateSubmission"
  /\ svc.body = Obj([ValidRecord EXCEPT !["consent"] = Undefined])
  /\ ~svc.out.valid
  /\ Paths(svc.out.details) = <<(<<"consent">>)>>

\* the rule validateSubmission applies to field k: names are at most 100 long
MeetsServiceRule(k, x) ==
  MeetsRule(k, x) /\ (k \in {"entrepreneurName", "panHolderName"} => Len(x.v) <= NameMax)

RECURSIVE ViolatingService(_, _)
ViolatingService(ks, f) ==
  IF ks = <<>> THEN <<>>
  ELSE (IF MeetsServiceRule(ks[1], f[ks[1]]) THEN <<>> ELSE <<ks[1]>>)
       \o ViolatingService(Tail(ks), f)

HasMessages(details) == \A i \in 1..Len(details) : details[i].message # ""

\* C6: for a rejected record the error list of validateSubmission, and the
\* details of the 400 response of POST /submit, hold one entry (path and
\* message) for every field that breaks its rule, in the order of the schema.
C6_AllErrorsInOrder ==
  /\ (svc.op = "validateSubmission" /\ IsRecord(svc.body) /\ ~svc.out.valid)
        => /\ Paths(svc.out.details) = AsPaths(ViolatingService(Fields, svc.body.f))
           /\ HasMessages(svc.out.details)
  /\ (Submitted /\ IsRecord(req.body) /\ out.status = 400)
        => /\ Paths(out.details) = AsPaths(Violating(Fields, req.body.f))
           /\ HasMessages(out.details)

C6_Witness ==
  /\ Submitted /\ out.status = 400
  /\ Paths(out.details) = <<(<<"aadhaarNumber">>), (<<"city">>)>>

---------------------------------------------------------------------------
(* C7 *)

ValidateRoutes == {"/validate/pan", "/validate/aadhaar", "/validate/otp", "/validate/pincode"}

RouteKey(ep) ==
  CASE ep = "/validate/pan"     -> "panNumber"
    [] ep = "/validate/aadhaar" -> "aadhaarNumber"
    [] ep = "/validate/otp"     -> "otp"
    [] OTHER                    -> "pincode"

RequiredText(ep) ==
  CASE ep = "/validate/pan"     -> "PAN number is required"
    [] ep = "/validate/aadhaar" -> "Aadhaar number is required"
    [] ep = "/validate/otp"     -> "OTP is required"
    [] OTHER                    -> "PIN code is required"

\* the messages that name the expected format
FormatText(ep) ==
  CASE ep = "/validate/pan"     -> "Invalid PAN format. Expected: ABCDE1234F"
    [] ep = "/validate/aadhaar" -> "Invalid Aadhaar format. Must be 12 digits starting with 2-9"
    [] ep = "/validate/otp"     -> "Invalid OTP format. Must be 6 digits"
    [] OTHER                    -> "Invalid PIN code format. Must be 6 digits"

Validated == req.ep \in ValidateRoutes /\ req.pc = "responded"
RouteValue == req.body.f[RouteKey(req.ep)]

IsMissing(x)  == out.status = 400 /\ out.error = RequiredText(req.ep) /\ out.valid = Undefined
IsMismatch(x) == out.status = 400 /\ out.valid = Bool(FALSE) /\ out.error = FormatText(req.ep)
IsMatch(x)    == out.status = 200 /\ out.valid = Bool(TRUE) /\ out.message # ""

\* the values `!value` takes for absent or empty
Falsy == {Undefined, Null, Bool(FALSE), Num(<<"0">>), Str(<<>>)}

\* C7 as claimed: absent or empty -> "<field> is required"; present but not
\* matching -> valid=false with the message naming the format; matching -> 200.
C7_ThreeOutcomes ==
  Validated =>
     LET x == RouteValue IN
         /\ x \in Falsy => IsMissing(x)
         /\ (x \notin Falsy /\ ~MeetsRule(RouteKey(req.ep), x)) => IsMismatch(x)
         /\ MeetsRule(RouteKey(req.ep), x) => IsMatch(x)

\* C7 as amended: a falsy value (absent, null, false, 0, empty string) ->
\* 400 "<field> is required"; a non-empty string that does not match -> 400,
\* valid=false, the message naming the format; any other value that is not a
\* string -> 400, valid=false, "Expected string, received <type>"; a matching
\* string -> 200, valid=true and a message.
C7_FourOutcomes ==
  Validated =>
     LET x == RouteValue IN
         /\ x \in Falsy => IsMissing(x)
         /\ (x \notin Falsy /\ IsStr(x) /\ ~MeetsRule(RouteKey(req.ep), x)) => IsMismatch(x)
         /\ (x \notin Falsy /\ ~IsStr(x))
               => /\ out.status = 400 /\ out.valid = Bool(FALSE)
                  /\ out.error = "Expected string, received " \o x.t
         /\ MeetsRule(RouteKey(req.ep), x) => IsMatch(x)

C7_Witness ==
  /\ Validated /\ req.ep = "/validate/otp" /\ RouteValue = Num(DigitString(6))
  /\ out.status = 400 /\ out.error = "Expected string, received number"

---------------------------------------------------------------------------
(* C8, C9, C10 *)

SatisfiesAllRules(body) == IsRecord(body) /\ \A k \in FieldSet : MeetsRule(k, body.f[k])

IsNotStoredAck ==
  out.status = 202 /\ out.stored = Bool(FALSE) /\ out.data = Strip(req.body.f)

IsStoredAnswer ==
  /\ out.status = 200 /\ out.stored = Bool(TRUE)
  /\ \E i \in 1..Len(db) : db[i].id = out.id /\ db[i].data = Strip(req.body.f)

\* C8: a record that satisfies every submission rule is answered with
\* stored=true and the identifier the sink generated for it, or with the
\* stored=false acknowledgment that carries the validated data.
C8_ValidAccepted ==
  (Submitted /\ SatisfiesAllRules(req.body)) => (IsStoredAnswer \/ IsNotStoredAck)

\* C9: a submission whose panNumber breaks the PAN rule, all other fields
\* valid, is answered 400 with an entry on the panNumber field ("Invalid PAN
\* format" for a string) and never reaches the sink; POST /validate/pan
\* answers 400 for such a value too.
C9_BadPanRejected ==
  /\ (/\ Submitted /\ IsRecord(req.body)
      /\ ~MeetsRule("panNumber", req.body.f["panNumber"])
      /\ \A k \in FieldSet \ {"panNumber"} : MeetsRule(k, req.body.f[k]))
        => /\ out.status = 400
           /\ req.sink = "none"
           /\ \E i \in 1..Len(out.details) :
                 /\ out.details[i].path = <<"panNumber">>
                 /\ IsStr(req.body.f["panNumber"])
                       => out.details[i].message = "Invalid PAN format"
  /\ (Validated /\ req.ep = "/validate/pan" /\ ~MeetsRule("panNumber", RouteValue))
        => out.status = 400

C9_Witness ==
  /\ Submitted /\ req.body = Obj([ValidRecord EXCEPT !["panNumber"] = BadPan])
  /\ out.status = 400 /\ Paths(out.details) = <<(<<"panNumber">>)>>

\* C10: when the sink is unavailable for a valid submission (the client
\* cannot be loaded, or its create call fails) the answer is the stored=false
\* acknowledgment carrying the validated data.
C10_SinkUnavailableDegrades ==
  (Submitted /\ req.sink \in {"noClient", "rejected"}) => IsNotStoredAck

---------------------------------------------------------------------------
(* C11 *)

\* t is a script element: an opening "<script" in any case that no word
\* character follows, up to the first "</script>" in any case
IsScriptElement(t) ==
  LET n == Len(t) IN
  /\ n >= Len(ScriptOpen) + Len(ScriptClose)
  /\ LowerCase(SubSeq(t, 1, Len(ScriptOpen))) = ScriptOpen
  /\ t[Len(ScriptOpen) + 1] \notin WordChars
  /\ \A j \in (Len(ScriptOpen) + 1)..n :
        (j + Len(ScriptClose) - 1 <= n
           /\ LowerCase(SubSeq(t, j, j + Len(ScriptClose) - 1)) = ScriptClose)
        <=> j = n - Len(ScriptClose) + 1

\* t is "javascript:" in any case
IsJavascriptUrl(t) == LowerCase(t) = JavascriptColon

\* t is an event-handler assignment: "on" in any case, a word, optional
\* white space and "="
IsHandlerAssignment(t) ==
  LET n == Len(t) IN
  /\ n >= 4
  /\ LowerCase(SubSeq(t, 1, 2)) = On
  /\ t[n] = "="
  /\ \E w \in 1..(n - 3) :
        /\ \A j \in 3..(2 + w) : t[j] \in WordChars
        /\ \A j \in (3 + w)..(n - 1) : t[j] \in WhiteSpace

IsPattern(kind, t) ==
  CASE kind = "script"     -> IsScriptElement(t)
    [] kind = "javascript" -> IsJavascriptUrl(t)
    [] kind = "handler"    -> IsHandlerAssignment(t)

PatternKinds == {"script", "javascript", "handler"}
FirstLetter(kind) ==
  CASE kind = "script" -> "<" [] kind = "javascript" -> "j" [] kind = "handler" -> "o"

\* the length of the pattern that begins s, 0 when none does
Leading(kind, s) ==
  IF s = <<>> \/ toLowerCase(s[1]) # FirstLetter(kind) THEN 0
  ELSE LET ns == {n \in 1..Len(s) : IsPattern(kind, SubSeq(s, 1, n))}
       IN  IF ns = {} THEN 0 ELSE Least(ns)

\* s with every pattern of the kind taken out, from left to right
RECURSIVE Without(_, _)
Without(kind, s) ==
  IF s = <<>> THEN <<>>
  ELSE LET n == Leading(kind, s)
       IN  IF n > 0 THEN Without(kind, SubSeq(s, n + 1, Len(s)))
           ELSE <<Head(s)>> \o Without(kind, Tail(s))

HasPattern(s) ==
  \E kind \in PatternKinds, i \in 1..Len(s) : Leading(kind, SubSeq(s, i, Len(s))) > 0

\* r is s without its leading and trailing white space
IsTrimOf(r, s) ==
  /\ r # <<>> => r[1] \notin WhiteSpace /\ r[Len(r)] \notin WhiteSpace
  /\ \E i \in 0..Len(s) :
        /\ i + Len(r) <= Len(s)
        /\ SubSeq(s, i + 1, i + Len(r)) = r
        /\ \A j \in 1..i : s[j] \in WhiteSpace
        /\ \A j \in (i + Len(r) + 1)..Len(s) : s[j] \in WhiteSpace

\* C11: sanitizeInput returns a record with the keys of its argument; every
\* string value is the input value with the script elements, then the
\* "javascript:" occurrences, then the on<word>= assignments taken out, and
\* then trimmed; every other value is the input value; a string with none of
\* the patterns comes back trimmed and otherwise unchanged.
C11_SanitizeInput ==
  san.op = "sanitizeInput" =>
    /\ Entries(san.out) = Entries(san.data)
    /\ \A key \in Entries(san.data) :
          LET value == san.data[key]
              got   == san.out[key]
          IN  IF IsStr(value)
              THEN /\ IsStr(got)
                   /\ IsTrimOf(got.v, Without("handler",
                                 Without("javascript", Without("script", value.v))))
                   /\ ~HasPattern(value.v) => IsTrimOf(got.v, value.v)
              ELSE got = value

ScriptAlertJohn ==
  <<"<", "s", "c", "r", "i", "p", "t", ">", "a", "l", "e", "r", "t", "(", "1", ")",
    "<", "/", "s", "c", "r", "i", "p", "t", ">", "J", "o", "h", "n">>

\* C11 witness: '<script>alert(1)</script>John' comes back as 'John', next to
\* a boolean and a number that come back as they were
C11_Witness ==
  /\ san.op = "sanitizeInput"
  /\ san.data["name"] = Str(ScriptAlertJohn)
  /\ san.out["name"] = Str(<<"J", "o", "h", "n">>)
  /\ san.data["consent"] = Bool(TRUE)
  /\ san.out["consent"] = Bool(TRUE)
  /\ san.out["otp"] = Num(DigitString(6))

---------------------------------------------------------------------------
(* C12 *)

\* C12: /submit validates the raw values and sanitizes them before the
\* record is persisted: every record in the sink is the sanitized form of the
\* validated record, and no string in the sink carries a script element, a
\* "javascript:" or an on<word>= assignment.
C12_SinkGetsSanitized ==
  /\ \A i \in 1..Len(db) : \A k \in FieldSet :
        IsStr(db[i].data[k]) => ~HasPattern(db[i].data[k].v)
  /\ (Submitted /\ req.sink = "stored")
        => db[Len(db)].data = sanitizeInput(Strip(req.body.f))

---------------------------------------------------------------------------
(* C20 *)

\* C20: the step-2 scraper never writes a document with an empty field
\* list: when the filter keeps no element the document written is the
\* hand-authored default (PAN number, PIN code, state, city), so the
\* document it puts into step2.json has at least one field and step 2.
C20_Step2NeverEmpty ==
  (scraper.step = 2 /\ scraper.pc \in {"writing", "close", "done"}) =>
     /\ cache[2].exists
     /\ cache[2].doc = scraper.schema
     /\ Len(cache[2].doc.fields) >= 1
     /\ cache[2].doc.step = 2
     /\ SelectSeq(scraper.dom, IsStep2Input) = <<>> => cache[2].doc = createFallback

\* C20 witness: a page with inputs none of which the filter keeps; the run
\* has written the default document with its four fields
C20_Witness ==
  /\ scraper.step = 2 /\ scraper.pc = "done"
  /\ scraper.dom = <<CompanyInput, AriaInput>>
  /\ cache[2] = WholeOf(createFallback)
  /\ [i \in 1..4 |-> cache[2].doc.fields[i].id] =
        << <<"p", "a", "n", "N", "u", "m", "b", "e", "r">>,
           <<"p", "i", "n", "c", "o", "d", "e">>,
           <<"s", "t", "a", "t", "e">>, <<"c", "i", "t", "y">> >>

---------------------------------------------------------------------------
(* C13 *)

\* the answer has a status from 200 to 299
Success(r) == r.status \in 200..299

IsFormSchema(doc) ==
  /\ doc.title # ""
  /\ doc.step \in Steps
  /\ \A i \in 1..Len(doc.fields) : doc.fields[i].type # ""

\* C13: fetchSchema never fails: for step 1 and 2, whether the endpoint is
\* unreachable, answers without success, answers with a body that is not
\* JSON, or finds no cache file, the call is fulfilled with a form schema of
\* the step; with the endpoint unreachable and no cache file it is the
\* static default schema of the step, whose field list is not empty.
C13_FetchSchemaNeverFails ==
  fetcher.pc = "settled" =>
    /\ fetcher.settled = "fulfilled"
    /\ IsFormSchema(fetcher.value)
    /\ fetcher.value.step = fetcher.step
    /\ (~fetcher.reached \/ ~Success(fetcher.r) \/ ~fetcher.r.json)
          => fetcher.value = StaticSchema(fetcher.step)
    /\ (~fetcher.reached /\ ~cache[fetcher.step].exists)
          => fetcher.value = StaticSchema(fetcher.step) /\ fetcher.value.fields # <<>>

\* C13 witness: fetchSchema(1) with the backend unreachable and no step1.json
\* is fulfilled with the static step 1 schema and its three fields
C13_Witness ==
  /\ fetcher.pc = "settled" /\ fetcher.step = 1
  /\ ~fetcher.reached /\ ~cache[1].exists
  /\ fetcher.settled = "fulfilled"
  /\ fetcher.value = step1Schema /\ Len(fetcher.value.fields) = 3

---------------------------------------------------------------------------
(* C14 *)

FailedAttempts(f) == {i \in 1..Len(f.tried) : ~f.tried[i].ok}
UsedSource(f)     == f.tried[Len(f.tried)].source
OncePerSource(f)  ==
  \A i, j \in 1..Len(f.tried) : f.tried[i].source = f.tried[j].source => i = j

---------------------------------------------------------------------------
(* C15 *)

ScrapedAnswered == req.ep = "/scraped-schema" /\ req.pc = "responded"

\* C15 (as claimed): GET /scraped-schema/{step} has two outcomes: the cache
\* document of the step exists and the answer is 200 with its content, or
\* the answer is 404.
C15_TwoOutcomes ==
  ScrapedAnswered =>
    IF req.file.exists
    THEN out.status = 200 /\ out.schema = req.file.doc
    ELSE out.status = 404

\* C15 (amended): GET /scraped-schema/{step} has three outcomes: no cache
\* file of the step exists and the answer is 404; the file exists and holds
\* a whole JSON text and the answer is 200 with its content; the file exists
\* but cannot be parsed and the answer is 500 with an error message.
C15_ThreeOutcomes ==
  ScrapedAnswered =>
    /\ ~req.file.exists
          => out = [Response(404) EXCEPT !.error = "Scraped schema not found"]
    /\ (req.file.exists /\ req.file.whole)
          => out = [Response(200) EXCEPT !.schema = req.file.doc]
    /\ (req.file.exists /\ ~req.file.whole)
          => out.status = 500 /\ out.error # "" /\ out.schema = NoDoc

\* C15 witness: step2.json is being written when the request comes in
C15_Witness ==
  /\ ScrapedAnswered /\ req.step = 2
  /\ scraper.pc = "writing" /\ scraper.step = 2
  /\ req.file = PartOf(createFallback)
  /\ out.status = 500

---------------------------------------------------------------------------
(* C16 *)

NameKeys == {"entrepreneurName", "panHolderName"}

\* C16: POST /submit accepts a record only if entrepreneurName and
\* panHolderName each have 1 to 100 characters; a name of more than 100
\* characters is rejected with a validation error, as validateSubmission
\* rejects it.
C16_NamesWithinHundred ==
  (req.ep = "/submit" /\ IsRecord(req.body)) =>
    /\ (req.sink # "none" \/ out.status \in {200, 202})
          => \A k \in NameKeys :
                /\ IsStr(req.body.f[k])
                /\ Len(req.body.f[k].v) \in 1..NameMax
    /\ (req.pc = "responded" /\ ~validateSubmission(req.body).valid) => out.status = 400

---------------------------------------------------------------------------
(* C17 *)

\* the response is a JSON object with one of the statuses the routes use
IsStructured(r) ==
  /\ r.status \in {200, 202, 400, 404, 500}
  /\ r.error # "" \/ r.message # "" \/ r.valid # Undefined \/ r.schema # NoDoc

\* the handler of the request under way has a next step to take
HandlerGoesOn == ENABLED (getPrisma \/ \E ok \in BOOLEAN : SubmitCreate(ok))

---------------------------------------------------------------------------
(* C18 *)

\* the steps a run of a scraper takes without an answer from the portal
ScraperOwnStep ==
  GotoTimeout \/ DelayElapses \/ Evaluate \/ WriteBegin \/ WriteEnd \/ BrowserClose \/ ScraperExit

\* the steps a call of fetchSchema takes without an answer from the backend
FetcherOwnStep == FetchSchemaCall \/ FetcherReturn

NavigationPending == scraper.pc = "goto"
FetchPending      == fetcher.pc \in {"fetch", "json"}

\* C18: no operation waits for the remote side for ever: whenever a network
\* call is under way (page.goto of a scraper, fetch or r.json() of
\* fetchSchema), the caller has a step of its own that can be taken without
\* any answer from the remote side, namely the expiry of the call's timeout.
\* Violated: fetch is called without a timeout, so while fetchSchema awaits
\* it only the remote side can make the call go on.
C18_NoCallWaitsForever ==
  /\ NavigationPending => ENABLED ScraperOwnStep
  /\ FetchPending => ENABLED FetcherOwnStep

---------------------------------------------------------------------------
(* C19 *)

\* no message under the input `name`
NoFieldError(name) == form.fieldErrors[name] = ""

\* the value is empty or the pattern of the server accepts it
EmptyOrAccepted(re, value) == value = <<>> \/ Test(re, value)

AadhaarAgrees ==
  NoFieldError("aadhaarNumber") <=> EmptyOrAccepted(aadhaarRegex, form.values.aadhaarNumber)
PanAgrees ==
  NoFieldError("panNumber") <=> EmptyOrAccepted(panRegex, form.values.panNumber)

\* C19: whatever has been typed into the Aadhaar input or the PAN input,
\* onChange leaves the input without an error message exactly when the value
\* it holds is empty or is accepted by the server's pattern for that field.
\* Violated: a value of 12 characters that starts with 2-9 and holds a
\* character that is no digit gets no message from the Aadhaar check.
C19_ClientAgreesWithServer == AadhaarAgrees /\ PanAgrees

---------------------------------------------------------------------------
(* C21 *)

\* the run has given up: page.goto has failed NavAttempts times
Aborted == scraper.pc = "failed"

\* C21: when the navigation of a run has failed on both attempts the run is
\* over without a document, and the cache files are exactly the ones the
\* run found when it began: none created, none changed.
C21_AbortedRunWritesNothing ==
  Aborted => /\ Len(scraper.gotos) = NavAttempts
             /\ scraper.schema = NoDoc
             /\ cache = scraper.found

\* a run has given up with a cache file of its step in place
C21_Witness ==
  /\ Aborted
  /\ Len(scraper.gotos) = NavAttempts
  /\ cache[scraper.step].exists

---------------------------------------------------------------------------
(* C23 *)

\* how late in the loading of a page a waitUntil condition is met
Lateness(w) ==
  CASE w = "domcontentloaded" -> 1
    [] w = "load"             -> 2
    [] w = "networkidle2"     -> 3
    [] w = "networkidle0"     -> 4

MorePermissive(w, than) == Lateness(w) < Lateness(than)

\* C23: a run calls page.goto at most twice; the first call opens the run,
\* the second one is made only from the wait that follows a failed first
\* call, and its completion condition is more permissive than the first
\* one's. Violated: navigateWithRetry of scrape.ts repeats the call with
\* "networkidle2".
C23_RetryOnceMorePermissive ==
  [][ /\ Len(scraper'.gotos) > Len(scraper.gotos) =>
           \/ /\ scraper.pc = "idle"
              /\ Len(scraper'.gotos) = 1
           \/ /\ scraper.pc = "delay"
              /\ Len(scraper'.gotos) = 2
              /\ MorePermissive(scraper'.gotos[2], scraper'.gotos[1])
      /\ (scraper'.pc = "delay" /\ scraper.pc # "delay") =>
           scraper.pc = "goto" /\ Len(scraper.gotos) = 1 ]_vars

---------------------------------------------------------------------------
(* C22 *)

RunOver(run) == run.pc \in {"done", "failed"}
Wrote(run, step) == run.pc \in {"close", "done"} /\ run.step = step

\* the document of the run that wrote the file of the step last
LastWritten(step) ==
  IF Wrote(rival, step) /\ (rival.after \/ ~Wrote(scraper, step))
  THEN rival.schema ELSE scraper.schema

\* the answer 200 of GET /scraped-schema/{step} carries the whole document
\* of one run
WholeDocumentServed ==
  (ScrapedAnswered /\ out.status = 200) =>
     \E run \in {[step |-> scraper.step, schema |-> scraper.schema],
                  [step |-> rival.step, schema |-> rival.schema]} :
        /\ run.step = req.step
        /\ run.schema # NoDoc
        /\ req.file = WholeOf(run.schema)
        /\ out.schema = run.schema

\* once the runs are over, the file of a step a run has written holds the
\* whole document of the run that wrote it last
LastDocumentLeft ==
  (RunOver(scraper) /\ RunOver(rival)) =>
     \A step \in Steps :
        (Wrote(scraper, step) \/ Wrote(rival, step)) => cache[step] = WholeOf(LastWritten(step))

\* C22: with runs of the scrapers writing the cache file of a step while
\* GET /scraped-schema/{step} reads it, every answer 200 carries the whole
\* document of a single run, and the file left when the runs are over is
\* the whole document of the run that wrote last. Violated: two runs that
\* overlap both open the file with O_TRUNC and write from its beginning, and
\* the shorter text written last leaves the end of the longer one behind it.
C22_NeverHalfWritten == WholeDocumentServed /\ LastDocumentLeft

---------------------------------------------------------------------------
(* C24 *)

\* the candidates of the label of an element, in the order of priority: the
\* text of the label element that points at its id, the text of the nearest
\* preceding sibling that has text, the text of the nearest ancestor with
\* text and exactly one child, the placeholder, the name, the id
Candidates(el) ==
  << IF el.id # <<>> /\ el.forLabel.has THEN trim(el.forLabel.text) ELSE <<>>,
     FirstText(el.siblings),
     ParentText(el.ancestors),
     el.placeholder,
     el.name,
     el.id >>

FirstNonEmpty(texts) ==
  IF \A i \in 1..Len(texts) : texts[i] = <<>> THEN <<>>
  ELSE texts[Least({i \in 1..Len(texts) : texts[i] # <<>>})]

Evaluated == enhanced.pc \in {"write", "writing", "close", "done"} /\ ~enhanced.caught

\* C24: for every element getLabelText is called for, the label it returns
\* is the first candidate that is not empty, in the order label element,
\* preceding sibling, ancestor with one child, placeholder, name, id.
\* Violated: a label element without text that points at the element ends
\* the search with "", whatever the candidates behind it hold.
C24_FirstNonEmptyLabel ==
  Evaluated =>
    \A i \in 1..Len(enhanced.dom) :
       enhanced.dom[i].type \notin {"hidden", "button", "submit"} =>
          enhanced.labels[i] = FirstNonEmpty(Candidates(enhanced.dom[i]))

---------------------------------------------------------------------------
(* C25 *)

\* C25: in every field the enhanced scraper makes of an element that has a
\* pattern attribute, validation.pattern is that attribute, character for
\* character; the heuristics set the pattern only where the element has
\* none. Violated: the heuristics run after the attribute has been copied
\* and overwrite it.
C25_ExplicitPatternKept ==
  Evaluated =>
    \A k \in 1..Len(enhanced.fields) :
       LET field == enhanced.fields[k]
           el    == enhanced.dom[field.of + 1]
       IN  el.pattern # <<>> => field.validation.pattern = el.pattern

---------------------------------------------------------------------------
(* C26 *)

\* a text matches the step-2 keyword set
Step2Keyword(txt) ==
  TestPanWord(txt) \/ TestPinCode(txt) \/ TestState(txt) \/ TestCityDistrict(txt)

\* label and placeholder as the filter reads them
FilterText(label, placeholder) == LowerCase(label \o <<" ">> \o placeholder)

\* a PAN field: the PAN keyword of the filter is in its label or placeholder
IsPanField(field) == TestPanWord(FilterText(field.label, field.placeholder))

\* the step-2 scraper has evaluated the page
Step2Evaluated ==
  scraper.step = 2 /\ scraper.pc \in {"write", "writing", "close", "done"}

\* the fields that passed the filter, in the order of the page
Passed == Map2(SelectSeq(scraper.dom, IsStep2Input))

\* at most FieldCap fields, every one with a step-2 keyword in its label or
\* placeholder
CappedAndFiltered ==
  Step2Evaluated =>
    /\ Len(scraper.schema.fields) <= FieldCap
    /\ \A i \in 1..Len(scraper.schema.fields) :
          Step2Keyword(FilterText(scraper.schema.fields[i].label,
                                  scraper.schema.fields[i].placeholder))

\* a PAN field leads the output, and where a PAN field that passed is not in
\* the output, the output holds PAN fields only
PanLeads ==
  (Step2Evaluated /\ \E i \in 1..Len(Passed) : IsPanField(Passed[i])) =>
    /\ scraper.fields # <<>>
    /\ IsPanField(scraper.fields[1])
    /\ (\E i \in 1..Len(Passed) :
           IsPanField(Passed[i])
             /\ \A k \in 1..Len(scraper.fields) : scraper.fields[k] # Passed[i])
         => \A k \in 1..Len(scraper.fields) : IsPanField(scraper.fields[k])

\* C26: the output of the step-2 scraper holds at most 6 fields, each with a
\* keyword of the step-2 set (PAN, pincode, state, city or district) in its
\* label or placeholder; and when a PAN field passed the filter, a PAN field
\* is the first field of the output and no PAN field is cut by the cap while
\* a field that is no PAN field is kept
C26_PanFirstWithinCap == CappedAndFiltered /\ PanLeads

---------------------------------------------------------------------------
(* C27 *)

\* C27: however the /submit requests interleave, the database client is
\* constructed at most once
C27_ClientConstructedOnce == prisma <= 1

---------------------------------------------------------------------------
(* C28 *)

\* the backend's validators accept the Aadhaar number and the OTP the form
\* holds
HeldValuesAccepted ==
  /\ Ok(AadhaarReply(form.values.aadhaarNumber))
  /\ Ok(OtpReply(form.values.otp))

\* C28: whatever was typed and clicked, otpVerified is set only when the OTP
\* input has been shown and the Aadhaar number and the OTP the form holds
\* now are values the validators of the server accept
C28_VerifiedMeansAccepted ==
  form.values.otpVerified => form.values.showOtpField /\ HeldValuesAccepted

---------------------------------------------------------------------------
(* C29 *)

\* no lookup is under way and the lookup of the PIN code in the input has
\* filled in state and city
LookupsCompleted == form.lookups = <<>> /\ form.filled

\* C29: once every lookup has completed, state and city are the ones the
\* postal service returned for the PIN code that is in the input, in
\* whatever order the answers arrived: the answer for an earlier PIN code
\* does not replace what the answer for the later one filled in
C29_LatestPinWins ==
  LookupsCompleted =>
    /\ form.values.state = PostOffice(form.values.pincode).State
    /\ form.values.city = PostOffice(form.values.pincode).District

---------------------------------------------------------------------------
(* C30 *)

\* C30: sanitizeInput gives back a record it has sanitized as it is: a
\* second pass finds no script element, no "javascript:", no on<word>=
\* assignment and no surrounding white space left to remove
C30_SanitizeIdempotent ==
  san.op = "sanitizeInput" => sanitizeInput(san.out) = san.out

====
